---- MODULE Spec2Model ----
(***************************************************************************)
(* Roura Agent: the agentic tool-calling loop (agent/loop.py), its context *)
(* store (agent/context.py) and the streaming tool-call accumulator        *)
(* (llm/ollama.py), as a state machine.                                    *)
(*                                                                         *)
(* Texts (tool names, argument documents, streamed content) are sequences  *)
(* of tokens, so that concatenation, splitting and parsing are computed.   *)
(***************************************************************************)
EXTENDS Integers, Sequences, FiniteSets, TLC

VARIABLES
    state,        \* AgentLoop.state (AgentState)
    pc,           \* position of the control flow inside process()
    turns,        \* number of process() calls made so far
    config,       \* AgentConfig
    context,      \* AgentContext: read_set, messages, counters, undo_stack
    disk,         \* the file system: resolved path -> content or NoFile
    interrupted,  \* AgentLoop._interrupted
    stream,       \* locals of _stream_response
    gen,          \* locals of the chat_stream generator
    batch,        \* response.tool_calls being executed, and the position in it
    trace,        \* history variable: prompts and tool executions of the turn
    obs,          \* history variable: what the current model call went through
    cm,           \* can_modify harness: last call and its result
    acc,          \* accumulator harness: a call delivered split and whole
    vl,           \* verification_loop: its locals, result and history
    fn,           \* a pure function applied once: its input and its output
    console       \* the limit warnings printed during the current request

vars == <<state, pc, turns, config, context, disk, interrupted, stream, gen,
          batch, trace, obs, cm, acc, vl, fn, console>>

-----------------------------------------------------------------------------
(* Bounds of the model *)

MaxTurns == 2
MaxToolCallsCfg == 2
MaxIterationsCfg == 2
MaxLines == 2
MaxIndex == 1
MaxEmitted == 2
MaxContent == 1
MaxFragments == 3

\* Entries the undo stack keeps.
max_undo_history == 3

\* verification_loop: the largest max_iterations, the most commands.
MaxVerifyIterations == 3
MaxCommands == 2

\* classify_intent: the most words of a request text.
MaxWords == 3

\* The longest batch of edits given to apply_edits.
MaxEdits == 2

(* Program constants: attempts of a model call, and the first retry delay *)
(* of 2.0 s in quarters of a second.                                       *)

max_retries == 3
RetryDelayQuarters == 8

None == "<none>"
NoFile == "<absent>"

-----------------------------------------------------------------------------
(* Paths.  The working directory is /w; Path(p).resolve() maps every       *)
(* spelling of a file to its absolute form.                                *)

Spellings == {"a.py", "./a.py", "b.py"}

resolve(p) ==
    CASE p = "a.py"   -> "/w/a.py"
      [] p = "./a.py" -> "/w/a.py"
      [] p = "b.py"   -> "/w/b.py"
      [] OTHER        -> p

AbsPaths == {resolve(p) : p \in Spellings}

exists(d, abs) == d[abs] # NoFile

-----------------------------------------------------------------------------
(* AgentContext (context.py) *)

\* A read-set keyed by the path as spelled.
add_to_read_set_as_spelled(read_set, path) == read_set \cup {path}

\* A read that is not remembered.
add_to_read_set_forgetting(read_set, path) == read_set

add_to_read_set(read_set, path) == read_set \cup {resolve(path)}

has_read(read_set, path) == resolve(path) \in read_set

\* A store that lets every modification through.
can_modify_unchecked(read_set, d, path) ==
    [allowed |-> TRUE, reason |-> "New file"]

can_modify(read_set, d, path) ==
    LET resolved == resolve(path) IN
    IF ~exists(d, resolved)
        THEN [allowed |-> TRUE, reason |-> "New file"]
    ELSE IF resolved \notin read_set
        THEN [allowed |-> FALSE, reason |-> "File not read"]
    ELSE [allowed |-> TRUE, reason |-> "File in read set"]

Message(role, content, tool_calls, tool_call_id, result) ==
    [role |-> role, content |-> content, tool_calls |-> tool_calls,
     tool_call_id |-> tool_call_id, result |-> result]

add_message(ctx, role, content, tool_calls) ==
    [ctx EXCEPT !.messages =
        Append(@, Message(role, content, tool_calls, None,
                          [success |-> FALSE, error |-> None,
                           skipped |-> FALSE]))]

add_tool_result(ctx, tool_call_id, result) ==
    [ctx EXCEPT !.messages =
        Append(@, Message("tool", <<>>, <<>>, tool_call_id, result))]

reset_iteration(ctx) == [ctx EXCEPT !.iteration = 0, !.tool_call_count = 0]

start_iteration(ctx) == [ctx EXCEPT !.iteration = @ + 1]

can_continue(ctx, cfg) ==
    /\ ctx.iteration <= cfg.max_iterations
    /\ ctx.tool_call_count < cfg.max_tool_calls_per_turn

FileChange(path, old_content, new_content, action) ==
    [path |-> path, old_content |-> old_content,
     new_content |-> new_content, action |-> action]

record_file_change(undo_stack, path, old_content, new_content, action) ==
    LET pushed == Append(undo_stack,
                         FileChange(path, old_content, new_content, action))
    IN IF Len(pushed) > max_undo_history THEN Tail(pushed) ELSE pushed

-----------------------------------------------------------------------------
(* Tools.  A tool name is a text; the registry maps it to a risk level.    *)

fs_read    == <<"fs.", "read">>
fs_write   == <<"fs.", "write">>
fs_edit    == <<"fs.", "edit">>
shell_exec == <<"shell.", "exec">>

RiskOfFsRead == "SAFE"
RiskOfFsWrite == "MODERATE"
RiskOfOthers(name) ==
    CASE name = fs_edit    -> "MODERATE"
      [] name = shell_exec -> "DANGEROUS"

Registered == {fs_read, fs_write, fs_edit, shell_exec}

registry_get(name) ==
    IF name \notin Registered THEN None
    ELSE IF name = fs_read THEN RiskOfFsRead
    ELSE IF name = fs_write THEN RiskOfFsWrite
    ELSE RiskOfOthers(name)

ToolCall(id, name, arguments) ==
    [id |-> id, name |-> name, arguments |-> arguments]

ToolResult(success, error) == [success |-> success, error |-> error]

\* tool.execute(**args): the keyword arguments must bind to the tool's
\* signature, otherwise the call raises TypeError before the tool runs.
Binds(name, args) ==
    IF name = shell_exec
        THEN args.command # None /\ args.path = None
        ELSE args.path # None /\ args.command = None

-----------------------------------------------------------------------------
(* Tool execution (loop.py _execute_tool) *)

Outcomes == {"ok", "fail", "raise"}

ToolEnvs == [read_ok : BOOLEAN, outcome : Outcomes]

\* An entry of the turn's history: a prompt and its answer, one invocation
\* of a tool's execute, or the result a call of the batch ended with.
Event(kind, call, name, path, existed, was_read, answer, outcome) ==
    [kind |-> kind, pos |-> 0, call |-> call, name |-> name, path |-> path,
     existed |-> existed, was_read |-> was_read, answer |-> answer,
     outcome |-> outcome]

Outcome(result) == IF result.success THEN "ok" ELSE "failed"

\* FsReadTool.execute: fails on a missing file and on an I/O error.
FsReadExecute(d, path, read_ok) ==
    IF ~exists(d, resolve(path)) THEN ToolResult(FALSE, "File not found")
    ELSE IF ~read_ok THEN ToolResult(FALSE, "Permission denied")
    ELSE ToolResult(TRUE, None)

\* The tools whose code is outside src/: fs.write replaces the content of
\* the file (creating it), fs.edit rewrites an existing file, shell.exec
\* leaves the modelled files alone.  Each may fail, or raise an exception
\* (raised is then its text, and there is no result).
OtherToolExecute(name, d, path, outcome) ==
    LET abs == resolve(path) IN
    IF outcome = "raise"
        THEN [result |-> ToolResult(FALSE, None), disk |-> d,
              raised |-> "exception"]
    ELSE IF outcome = "fail" \/ (name = fs_edit /\ ~exists(d, abs))
        THEN [result |-> ToolResult(FALSE, "tool error"), disk |-> d,
              raised |-> None]
    ELSE IF name = shell_exec
        THEN [result |-> ToolResult(TRUE, None), disk |-> d, raised |-> None]
    ELSE [result |-> ToolResult(TRUE, None),
          disk |-> [d EXCEPT ![abs] = "new"], raised |-> None]

\* A handler that takes the exception for a success.
except_Exception_swallowed(e) == ToolResult(TRUE, None)

\* except Exception as e: the result made of str(e).
except_Exception(e) == ToolResult(FALSE, e)

\* tool.execute(**args) inside the try block of _execute_tool.
tool_execute(name, args, d, env) ==
    IF ~Binds(name, args)
        THEN [result |-> except_Exception("TypeError"), disk |-> d,
              ran |-> FALSE, raised |-> TRUE]
    ELSE IF name = fs_read
        THEN [result |-> FsReadExecute(d, args.path, env.read_ok),
              disk |-> d, ran |-> TRUE, raised |-> FALSE]
    ELSE LET r == OtherToolExecute(name, d, args.path, env.outcome)
         IN [result |-> IF r.raised # None THEN except_Exception(r.raised)
                        ELSE r.result,
             disk |-> r.disk, ran |-> TRUE, raised |-> r.raised # None]

\* A record that calls every change a modification.
change_action_modified(file_existed) == "modified"

\* action = "created" if not file_existed else "modified"
change_action(file_existed) ==
    IF file_existed THEN "modified" ELSE "created"

RECURSIVE execute_tool(_, _, _, _, _, _)
execute_tool(tool_call, read_set, undo_stack, d, cfg, env) ==
    LET tool_name == tool_call.name
        args == tool_call.arguments
        path == args.path
        modifies == tool_name \in {fs_write, fs_edit}
        check == can_modify(read_set, d, path)
        blocked == modifies /\ path # None /\ ~check.allowed
        auto == execute_tool(
                    ToolCall("auto_read", fs_read,
                             [path |-> path, command |-> None,
                              mapping |-> TRUE]),
                    read_set, undo_stack, d, cfg, env)
        rs1 == IF blocked THEN auto.read_set ELSE read_set
        ev1 == IF blocked THEN auto.events ELSE <<>>
        abs == resolve(path)
        file_existed == modifies /\ path # None /\ exists(d, abs)
        old_content == IF file_existed THEN d[abs] ELSE None
        run == tool_execute(tool_name, args, d, env)
        ev2 == IF run.ran
                 THEN <<Event("exec", tool_call.id, tool_name,
                              IF path = None THEN None ELSE abs,
                              path # None /\ exists(d, abs),
                              path # None /\ abs \in rs1, None,
                              IF run.raised THEN "raised"
                              ELSE Outcome(run.result))>>
                 ELSE <<>>
        rs2 == IF tool_name = fs_read /\ run.result.success
                 THEN add_to_read_set(rs1, path) ELSE rs1
        us2 == IF modifies /\ run.result.success /\ path # None
                 THEN record_file_change(
                          undo_stack, abs, old_content, run.disk[abs],
                          change_action(file_existed))
                 ELSE undo_stack
    IN
    IF registry_get(tool_name) = None
        THEN [result |-> ToolResult(FALSE, "Unknown tool"),
              read_set |-> read_set, undo_stack |-> undo_stack,
              disk |-> d, events |-> <<>>]
    ELSE IF blocked /\ ~cfg.auto_read_on_modify
        THEN [result |-> ToolResult(FALSE, check.reason),
              read_set |-> read_set, undo_stack |-> undo_stack,
              disk |-> d, events |-> <<>>]
    ELSE IF blocked /\ ~auto.result.success
        THEN [result |-> ToolResult(FALSE, "Cannot modify: auto-read failed"),
              read_set |-> auto.read_set, undo_stack |-> undo_stack,
              disk |-> d, events |-> auto.events]
    ELSE [result |-> run.result, read_set |-> rs2, undo_stack |-> us2,
          disk |-> run.disk, events |-> ev1 \o ev2]

-----------------------------------------------------------------------------
(* Approval (loop.py _needs_approval, _request_approval) *)

Answers == {"yes", "no", "all"}

\* A loop that asks for no approval.
needs_approval_never(tool_call, cfg) == FALSE

needs_approval(tool_call, cfg) ==
    LET risk == registry_get(tool_call.name) IN
    IF risk = None THEN TRUE
    ELSE IF risk = "DANGEROUS" THEN cfg.require_approval_dangerous
    ELSE IF risk = "MODERATE" THEN cfg.require_approval_moderate
    ELSE FALSE

\* The prompt is shown only for a registered tool; "all" switches both
\* approval requirements off and approves the call.
request_approval(tool_call, cfg, answer) ==
    IF registry_get(tool_call.name) = None
        THEN [approved |-> FALSE, config |-> cfg, prompted |-> FALSE]
    ELSE IF answer = "all"
        THEN [approved |-> TRUE,
              config |-> [cfg EXCEPT !.require_approval_moderate = FALSE,
                                     !.require_approval_dangerous = FALSE],
              prompted |-> TRUE]
    ELSE [approved |-> answer = "yes", config |-> cfg, prompted |-> TRUE]

-----------------------------------------------------------------------------
(* Streaming tool-call accumulation (llm/ollama.py) *)

LLMResponse(content, tool_calls, done, error, was_interrupted) ==
    [content |-> content, tool_calls |-> tool_calls, done |-> done,
     error |-> error, interrupted |-> was_interrupted]

has_content(response) == response.content # <<>>
has_tool_calls(response) == response.tool_calls # <<>>

\* json.loads on the token alphabet: an object with at most one member, a
\* scalar (a lone value token), or a decode error.
PathValues == Spellings
CommandValues == {"ls"}

json_loads(s) ==
    IF s = <<"{", "}">>
        THEN [ok |-> TRUE, value |-> [path |-> None, command |-> None,
                                      mapping |-> TRUE]]
    ELSE IF Len(s) = 4 /\ s[1] = "{" /\ s[2] = "path:"
            /\ s[3] \in PathValues /\ s[4] = "}"
        THEN [ok |-> TRUE, value |-> [path |-> s[3], command |-> None,
                                      mapping |-> TRUE]]
    ELSE IF Len(s) = 4 /\ s[1] = "{" /\ s[2] = "command:"
            /\ s[3] \in CommandValues /\ s[4] = "}"
        THEN [ok |-> TRUE, value |-> [path |-> None, command |-> s[3],
                                      mapping |-> TRUE]]
    ELSE IF Len(s) = 1 /\ s[1] \in PathValues \cup CommandValues
        THEN [ok |-> TRUE, value |-> [path |-> None, command |-> None,
                                      mapping |-> FALSE]]
    ELSE [ok |-> FALSE, value |-> None]

EmptyDict == [path |-> None, command |-> None, mapping |-> TRUE]

EmptyBuffer == [i \in {} |-> 0]

Fragment(index, id, name, arguments) ==
    [index |-> index, id |-> id, name |-> name, arguments |-> arguments]

\* An accumulator that keeps the last fragment instead of appending it.
accumulate_one_overwriting(tc, buffer) ==
    LET idx == tc.index
        b1 == IF idx \in DOMAIN buffer THEN buffer
              ELSE buffer @@ (idx :> [id |-> tc.id, name |-> <<>>,
                                      arguments |-> <<>>])
    IN [b1 EXCEPT ![idx].name = IF tc.name # <<>> THEN tc.name ELSE @,
                  ![idx].arguments = IF tc.arguments # <<>>
                                        THEN tc.arguments ELSE @]

accumulate_one(tc, buffer) ==
    LET idx == tc.index
        b1 == IF idx \in DOMAIN buffer THEN buffer
              ELSE buffer @@ (idx :> [id |-> tc.id, name |-> <<>>,
                                      arguments |-> <<>>])
    IN [b1 EXCEPT ![idx].name = @ \o tc.name,
                  ![idx].arguments = @ \o tc.arguments]

RECURSIVE accumulate_tool_calls(_, _)
accumulate_tool_calls(raw_calls, buffer) ==
    IF raw_calls = <<>> THEN buffer
    ELSE accumulate_tool_calls(Tail(raw_calls),
                               accumulate_one(Head(raw_calls), buffer))

RECURSIVE SortedKeys(_)
SortedKeys(S) ==
    IF S = {} THEN <<>>
    ELSE LET m == CHOOSE x \in S : \A y \in S : x <= y
         IN <<m>> \o SortedKeys(S \ {m})

SynthId(idx) == "call_" \o ToString(idx)

\* A finalizer that hands on what does not decode.
finalize_tool_call_undecoded(idx, tc_data) ==
    LET parsed == json_loads(tc_data.arguments)
        tc_id == IF tc_data.id # "" THEN tc_data.id ELSE SynthId(idx)
    IN ToolCall(tc_id, tc_data.name,
                IF parsed.ok THEN parsed.value
                ELSE [path |-> None, command |-> None, mapping |-> FALSE])

finalize_tool_call(idx, tc_data) ==
    LET args_str == tc_data.arguments
        parsed == json_loads(args_str)
        args == IF args_str = <<>> THEN EmptyDict
                ELSE IF parsed.ok THEN parsed.value
                ELSE EmptyDict
        tc_id == IF tc_data.id # "" THEN tc_data.id ELSE SynthId(idx)
    IN ToolCall(tc_id, tc_data.name, args)

RECURSIVE build_from(_, _)
build_from(keys, buffer) ==
    IF keys = <<>> THEN <<>>
    ELSE <<finalize_tool_call(Head(keys), buffer[Head(keys)])>>
         \o build_from(Tail(keys), buffer)

build_tool_calls(buffer) == build_from(SortedKeys(DOMAIN buffer), buffer)

-----------------------------------------------------------------------------
(* The chat_stream generator (ollama.py).  Each operator advances the     *)
(* generator to its next suspension and gives the responses it yields on  *)
(* the way, in order.                                                      *)

NoError == <<>>

GenNew ==
    [phase |-> "new", content_buffer |-> <<>>,
     tool_calls_buffer |-> EmptyBuffer, lines |-> 0, done_seen |-> FALSE]

\* The first yield, before the request is sent.
chat_stream_open(g) ==
    [gen |-> [g EXCEPT !.phase = "open"],
     yields |-> <<LLMResponse(<<>>, <<>>, FALSE, NoError, FALSE)>>]

\* One complete line of the response body: a partial response, and for a
\* line marked done the final response with the tool calls after it.
chat_stream_line(g, line) ==
    LET cb == g.content_buffer \o line.content
        buf == accumulate_tool_calls(line.tool_calls, g.tool_calls_buffer)
        partial == LLMResponse(cb, <<>>, line.done, NoError, FALSE)
        final == LLMResponse(cb, build_tool_calls(buf), TRUE, NoError, FALSE)
    IN [gen |-> [g EXCEPT !.content_buffer = cb, !.tool_calls_buffer = buf,
                          !.lines = @ + 1, !.done_seen = line.done,
                          !.phase = IF line.done THEN "closed" ELSE "open"],
        yields |-> IF line.done THEN <<partial, final>> ELSE <<partial>>]

\* A chunk that completes no line.
chat_stream_heartbeat(g) ==
    [gen |-> g,
     yields |-> <<LLMResponse(g.content_buffer, <<>>, FALSE, NoError, FALSE)>>]

\* An exception inside the request: reported in-band, whatever its class.
HttpErrors == {"OLLAMA_TIMEOUT", "OLLAMA_CONNECTION_FAILED",
               "HTTP_ERROR", "OLLAMA_STREAMING_FAILED"}

chat_stream_except(g, code) ==
    [gen |-> [g EXCEPT !.phase = "closed"],
     yields |-> <<LLMResponse(<<>>, <<>>, TRUE, <<code>>, FALSE)>>]

\* The body ends without a line marked done.
chat_stream_exhausted(g) ==
    [gen |-> [g EXCEPT !.phase = "closed"],
     yields |-> <<LLMResponse(g.content_buffer,
                              build_tool_calls(g.tool_calls_buffer),
                              TRUE, NoError, FALSE)>>]

-----------------------------------------------------------------------------
(* _stream_response (loop.py): the consumer of the generator *)

NoResponse == LLMResponse(<<>>, <<>>, FALSE, NoError, FALSE)

StreamNew ==
    [attempt |-> 1, retry_delay |-> RetryDelayQuarters,
     content_buffer |-> <<>>, final_response |-> NoResponse]

\* A loop body that takes the content of a response before it polls.
RECURSIVE consume_poll_last(_, _, _)
consume_poll_last(st, responses, escs) ==
    IF responses = <<>> THEN st
    ELSE LET response == Head(responses)
             st1 == IF response.content # <<>>
                        THEN [st EXCEPT !.content_buffer = response.content]
                        ELSE st
         IN IF Head(escs)
                THEN [st1 EXCEPT !.final_response =
                         LLMResponse(st1.content_buffer, <<>>, TRUE, NoError,
                                     TRUE)]
            ELSE IF response.done
                THEN [st1 EXCEPT !.final_response = response]
            ELSE consume_poll_last(st1, Tail(responses), Tail(escs))

\* The body of the for loop, for each response yielded, until a break.
RECURSIVE consume(_, _, _)
consume(st, responses, escs) ==
    IF responses = <<>> THEN st
    ELSE LET response == Head(responses) IN
         IF Head(escs)
             THEN [st EXCEPT !.final_response =
                      LLMResponse(st.content_buffer, <<>>, TRUE, NoError, TRUE)]
         ELSE LET st1 == IF response.content # <<>>
                             THEN [st EXCEPT !.content_buffer = response.content]
                             ELSE st
              IN IF response.done
                     THEN [st1 EXCEPT !.final_response = response]
                     ELSE consume(st1, Tail(responses), Tail(escs))

Keywords == {"connection", "timeout", "refused", "network"}

is_connection_error(error_msg) ==
    \E i \in 1..Len(error_msg) : error_msg[i] \in Keywords

\* The except branch: retry a connection error, else end with the error.
on_exception(st, error_msg) ==
    IF is_connection_error(error_msg) /\ st.attempt < max_retries
        THEN [st EXCEPT !.retry_delay = (@ * 3) \div 2,
                        !.content_buffer = <<>>,
                        !.attempt = @ + 1]
        ELSE [st EXCEPT !.final_response =
                 LLMResponse(st.content_buffer, <<>>, TRUE, error_msg, FALSE)]

-----------------------------------------------------------------------------
(* What the backend may send in the turn machine's runs *)

PathDoc(p) == <<"{", "path:", p, "}">>
CommandDoc(c) == <<"{", "command:", c, "}">>

WireCalls ==
    {[name |-> fs_read, arguments |-> PathDoc("a.py")],
     [name |-> fs_write, arguments |-> PathDoc("./a.py")],
     [name |-> shell_exec, arguments |-> CommandDoc("ls")]}

WholeCall(i, c) == Fragment(i, "", c.name, c.arguments)

\* The turn machine's backend sends whole calls, one line per response,
\* in the order of their indices or against it.
TurnLines ==
    [content : {<<>>, <<"w">>},
     tool_calls : {<<>>}
        \cup {<<WholeCall(0, c)>> : c \in WireCalls}
        \cup {<<WholeCall(0, c), WholeCall(1, d)>> : c, d \in WireCalls}
        \cup {<<WholeCall(1, c), WholeCall(0, d)>> :
                 c \in {[name |-> fs_read, arguments |-> PathDoc("a.py")]},
                 d \in WireCalls},
     done : BOOLEAN]

\* The stream machine's backend sends calls in pieces, or whole with an id.
StreamFragments ==
    {Fragment(i, "", n, a) :
        i \in 0..MaxIndex,
        n \in {<<>>, <<"fs.">>, <<"read">>, fs_read},
        a \in {<<>>, <<"{", "path:">>, <<"a.py", "}">>, PathDoc("a.py")}}
    \cup {Fragment(0, "tc_a", fs_read, PathDoc("a.py"))}

StreamLines ==
    [content : {<<>>, <<"w">>},
     tool_calls : {<<>>} \cup {<<f>> : f \in StreamFragments},
     done : BOOLEAN]

\* str(e) of the exceptions that leave the stream; <<>> is the empty
\* message of an exception raised without arguments.
RaisedMessages ==
    {<<"connection", "reset">>, <<"read", "timeout">>, <<"invalid", "json">>,
     <<>>}

FatalMessages == {<<"invalid", "json">>}

\* Tool calls and content tokens the history holds.
RECURSIVE Emitted(_)
Emitted(messages) ==
    IF messages = <<>> THEN 0
    ELSE Len(Head(messages).tool_calls) + Emitted(Tail(messages))

RECURSIVE ContentHeld(_)
ContentHeld(messages) ==
    IF messages = <<>> THEN 0
    ELSE (IF Head(messages).role = "assistant"
             THEN Len(Head(messages).content) ELSE 0)
         + ContentHeld(Tail(messages))

Transient(error) ==
    error \in {<<"OLLAMA_TIMEOUT">>, <<"OLLAMA_CONNECTION_FAILED">>,
               <<"connection", "reset">>, <<"read", "timeout">>}

ObsNew == [cause |-> "", esc |-> FALSE, polled_before |-> <<>>]

\* check_for_escape returned True at a poll the loop body reached.
EscSeen(yields, escs) ==
    escs[1] \/ (Len(yields) = 2 /\ ~yields[1].done /\ escs[2])

ResultDict(success, error, skipped) ==
    [success |-> success, error |-> error, skipped |-> skipped]

NoResult == ResultDict(FALSE, None, FALSE)

to_dict(result) == ResultDict(result.success, result.error, FALSE)

\* A rejection reported like any failure.
SkippedResultUnmarked ==
    ResultDict(FALSE, "User rejected this tool execution", FALSE)

\* A rejection that reports nothing.
SkippedResultNoError == ResultDict(TRUE, None, TRUE)

SkippedResult == ResultDict(FALSE, "User rejected this tool execution", TRUE)

Harness == <<cm, acc, vl, fn>>

-----------------------------------------------------------------------------
(* process() and _process_turn() *)

\* A request that keeps the approval settings of the one before it.
reset_approval_kept(cfg) == cfg

reset_approval(cfg) ==
    [cfg EXCEPT !.require_approval_moderate = TRUE,
                !.require_approval_dangerous = TRUE]

\* The history of a request starts with whether the request before it saw
\* an answer of "all".
HadAll(events) ==
    \E i \in 1..Len(events) :
        events[i].kind = "prompt" /\ events[i].answer = "all"

Begin(events) ==
    Event("begin", None, <<>>, None, FALSE, FALSE,
          IF HadAll(events) THEN "all" ELSE None, None)

\* process(): up to the first call of _process_turn.
Process(max_turns) ==
    /\ pc = "idle"
    /\ turns < max_turns
    /\ turns' = turns + 1
    /\ interrupted' = FALSE
    /\ config' = reset_approval(config)
    /\ context' = add_message(reset_iteration(context), "user", <<"u">>, <<>>)
    /\ trace' = <<Begin(trace)>>
    /\ pc' = "turn"
    /\ console' = <<>>
    /\ UNCHANGED <<state, disk, stream, gen, batch, obs, Harness>>

\* The locals of the finished model call go out of scope.
ForgetCall ==
    /\ stream' = StreamNew
    /\ gen' = GenNew
    /\ obs' = ObsNew

\* A _process_turn that returns True where it should return False.
EndTurnContinuing ==
    /\ pc' = "turn"
    /\ state' = state

\* _process_turn returns False; process() leaves its loop and summarizes.
EndTurn ==
    /\ pc' = "summarizing"
    /\ state' = "summarizing"

\* _process_turn: a limit is reached; the reason is printed.
ProcessTurnLimit ==
    /\ pc = "turn"
    /\ ~can_continue(start_iteration(context), config)
    /\ context' = start_iteration(context)
    /\ console' = Append(console,
                         IF context'.iteration > config.max_iterations
                             THEN "Max iterations reached"
                             ELSE "Max tool calls reached")
    /\ EndTurn
    /\ UNCHANGED <<turns, config, disk, interrupted, stream, gen, batch,
                   trace, obs, Harness>>

\* _process_turn: the model is called.
ProcessTurnThink ==
    /\ pc = "turn"
    /\ can_continue(start_iteration(context), config)
    /\ context' = start_iteration(context)
    /\ state' = "thinking"
    /\ stream' = StreamNew
    /\ gen' = GenNew
    /\ obs' = ObsNew
    /\ pc' = "stream"
    /\ UNCHANGED <<turns, config, disk, interrupted, batch, trace, Harness,
                   console>>

\* One advance of the generator and the loop body of _stream_response on
\* what it yields; escs are the outcomes of check_for_escape.
Deliver(step, escs, cause) ==
    LET st == consume(stream, step.yields, escs)
        fin == st.final_response
    IN /\ gen' = step.gen
       /\ stream' = st
       /\ interrupted' = (interrupted \/ fin.interrupted)
       /\ obs' = [polled_before |-> IF escs[1] THEN gen.content_buffer
                                    ELSE Head(step.yields).content,
                  esc |-> EscSeen(step.yields, escs),
                  cause |-> IF fin.done THEN cause ELSE ""]
       /\ pc' = IF fin.done THEN "respond" ELSE "stream"
       /\ UNCHANGED <<state, turns, config, context, disk, batch, trace,
                      Harness, console>>

ChatStreamOpen ==
    /\ pc = "stream" /\ gen.phase = "new"
    /\ \E escs \in [1..1 -> BOOLEAN] :
          Deliver(chat_stream_open(gen), escs, "")

ChatStreamLine(lines, max_lines) ==
    /\ pc = "stream" /\ gen.phase = "open" /\ gen.lines < max_lines
    /\ \E line \in lines, escs \in [1..2 -> BOOLEAN] :
          /\ Emitted(context.messages) + Len(line.tool_calls) <= MaxEmitted
          /\ ContentHeld(context.messages) + Len(gen.content_buffer)
                + Len(line.content) <= MaxContent
          /\ Deliver(chat_stream_line(gen, line), escs, "done")

ChatStreamHeartbeat ==
    /\ pc = "stream" /\ gen.phase = "open"
    /\ \E escs \in [1..1 -> BOOLEAN] :
          Deliver(chat_stream_heartbeat(gen), escs, "")

ChatStreamExcept ==
    /\ pc = "stream" /\ gen.phase = "open"
    /\ \E code \in HttpErrors, escs \in [1..1 -> BOOLEAN] :
          Deliver(chat_stream_except(gen, code), escs, "error")

ChatStreamExhausted ==
    /\ pc = "stream" /\ gen.phase = "open"
    /\ \E escs \in [1..1 -> BOOLEAN] :
          Deliver(chat_stream_exhausted(gen), escs, "exhausted")

\* An exception leaves the iteration of a provider's stream.
ChatStreamRaises(messages) ==
    /\ pc = "stream" /\ gen.phase = "open"
    /\ \E error_msg \in messages :
          LET st == on_exception(stream, error_msg)
              fin == st.final_response
          IN /\ stream' = st
             /\ gen' = IF fin.done THEN [gen EXCEPT !.phase = "closed"]
                       ELSE GenNew
             /\ obs' = IF fin.done
                         THEN [obs EXCEPT !.cause = "raised"]
                         ELSE ObsNew
             /\ pc' = IF fin.done THEN "respond" ELSE "stream"
    /\ UNCHANGED <<state, turns, config, context, disk, interrupted, batch,
                   trace, Harness, console>>

\* A _process_turn that goes on with an interrupted response.
returns_early_on_error(response) == response.error # NoError

\* The two tests after _stream_response returned: _process_turn returns
\* False for a response that is interrupted or has an error.
returns_early(response) == response.interrupted \/ response.error # NoError

\* _process_turn after _stream_response returned.
TurnInterrupted ==
    /\ pc = "respond"
    /\ stream.final_response.interrupted
    /\ EndTurn
    /\ ForgetCall
    /\ UNCHANGED <<turns, config, context, disk, interrupted, batch, trace,
                   Harness, console>>

TurnError ==
    /\ pc = "respond"
    /\ ~stream.final_response.interrupted
    /\ stream.final_response.error # NoError
    /\ EndTurn
    /\ ForgetCall
    /\ UNCHANGED <<turns, config, context, disk, interrupted, batch, trace,
                   Harness, console>>

ToolCallRefs(tool_calls) ==
    [i \in 1..Len(tool_calls) |->
        [id |-> tool_calls[i].id, name |-> tool_calls[i].name]]

append_assistant(ctx, response) ==
    IF has_content(response) \/ has_tool_calls(response)
        THEN add_message(ctx, "assistant", response.content,
                         ToolCallRefs(response.tool_calls))
        ELSE ctx

TurnAnswer ==
    /\ pc = "respond"
    /\ ~returns_early(stream.final_response)
    /\ ~has_tool_calls(stream.final_response)
    /\ context' = append_assistant(context, stream.final_response)
    /\ EndTurn
    /\ ForgetCall
    /\ UNCHANGED <<turns, config, disk, interrupted, batch, trace, Harness,
                   console>>

TurnToolCalls ==
    /\ pc = "respond"
    /\ ~returns_early(stream.final_response)
    /\ has_tool_calls(stream.final_response)
    /\ context' = append_assistant(context, stream.final_response)
    /\ state' = "executing_tools"
    /\ batch' = [calls |-> stream.final_response.tool_calls, pos |-> 1]
    /\ pc' = "tools"
    /\ ForgetCall
    /\ UNCHANGED <<turns, config, disk, interrupted, trace, Harness, console>>

\* The for loop over response.tool_calls, one iteration per step.  When
\* the loop ends _process_turn returns True and process() iterates.
BatchNew == [calls |-> <<>>, pos |-> 1]

count_tool_call(ctx) == [ctx EXCEPT !.tool_call_count = @ + 1]

\* A loop without a ceiling on tool calls.
over_limit_never(ctx, cfg) == FALSE

over_limit(ctx, cfg) == ctx.tool_call_count > cfg.max_tool_calls_per_turn

ToolCallLimit ==
    /\ pc = "tools"
    /\ over_limit(count_tool_call(context), config)
    /\ context' = count_tool_call(context)
    /\ batch' = BatchNew
    /\ console' = Append(console, "Tool call limit reached")
    /\ pc' = "turn"
    /\ UNCHANGED <<state, turns, config, disk, interrupted, stream, gen,
                   trace, obs, Harness>>

Prompt(tool_call, answer) ==
    Event("prompt", tool_call.id, tool_call.name, None, FALSE, FALSE,
          answer, None)

\* How a call of the batch ended, with what held when it started.
Ended(tool_call, read_set, d, outcome) ==
    LET path == tool_call.arguments.path IN
    Event("result", tool_call.id, tool_call.name,
          IF path = None THEN None ELSE resolve(path),
          path # None /\ exists(d, resolve(path)),
          path # None /\ has_read(read_set, path), None, outcome)

AtPos(events, pos) == [i \in 1..Len(events) |-> [events[i] EXCEPT !.pos = pos]]

\* A loop that takes up the same call again.
NextCallAgain == batch' = batch /\ pc' = "tools"

NextCall ==
    IF batch.pos = Len(batch.calls)
        THEN batch' = BatchNew /\ pc' = "turn"
        ELSE batch' = [batch EXCEPT !.pos = @ + 1] /\ pc' = "tools"

ToolCallSkipped ==
    /\ pc = "tools"
    /\ ~over_limit(count_tool_call(context), config)
    /\ LET tool_call == batch.calls[batch.pos] IN
       /\ needs_approval(tool_call, config)
       /\ \E answer \in Answers :
            LET asked == request_approval(tool_call, config, answer) IN
            /\ ~asked.approved
            /\ config' = asked.config
            /\ trace' = trace \o AtPos(
                            (IF asked.prompted
                                THEN <<Prompt(tool_call, answer)>> ELSE <<>>)
                            \o <<Ended(tool_call, context.read_set, disk,
                                       "skipped")>>, batch.pos)
            /\ context' = add_tool_result(count_tool_call(context),
                                          tool_call.id, SkippedResult)
       /\ state' = "awaiting_approval"
    /\ NextCall
    /\ UNCHANGED <<turns, disk, interrupted, stream, gen, obs, Harness,
                   console>>

ToolCallExecuted ==
    /\ pc = "tools"
    /\ ~over_limit(count_tool_call(context), config)
    /\ LET tool_call == batch.calls[batch.pos]
           needed == needs_approval(tool_call, config)
       IN \E answer \in Answers, env \in ToolEnvs :
            LET asked == request_approval(tool_call, config, answer)
                cfg1 == IF needed THEN asked.config ELSE config
                prompts == IF needed /\ asked.prompted
                             THEN <<Prompt(tool_call, answer)>> ELSE <<>>
                ctx1 == count_tool_call(context)
                done == execute_tool(tool_call, ctx1.read_set,
                                     ctx1.undo_stack, disk, cfg1, env)
            IN /\ needed => asked.approved
               /\ config' = cfg1
               /\ state' = IF needed THEN "awaiting_approval" ELSE state
               /\ disk' = done.disk
               /\ trace' = trace \o AtPos(
                               prompts \o done.events
                               \o <<Ended(tool_call, context.read_set, disk,
                                          Outcome(done.result))>>, batch.pos)
               /\ context' = add_tool_result(
                                 [ctx1 EXCEPT !.read_set = done.read_set,
                                              !.undo_stack = done.undo_stack],
                                 tool_call.id, to_dict(done.result))
    /\ NextCall
    /\ UNCHANGED <<turns, interrupted, stream, gen, obs, Harness, console>>

\* process(): the summary is shown, the session saved.
ProcessReturn ==
    /\ pc = "summarizing"
    /\ state' = "idle"
    /\ pc' = "idle"
    /\ UNCHANGED <<turns, config, context, disk, interrupted, stream, gen,
                   batch, trace, obs, Harness, console>>

-----------------------------------------------------------------------------
(* The agent: construction, then any number of requests *)

SystemMessage == Message("system", <<"prompt">>, <<>>, None, NoResult)

CmIdle == [phase |-> "off"]
AccIdle == [phase |-> "off"]
VlIdle == [pc |-> "off"]
FnIdle == [op |-> "off"]

AgentInit(configs, disks) ==
    /\ state = "idle"
    /\ pc = "idle"
    /\ turns = 0
    /\ config \in configs
    /\ context = [read_set |-> {}, messages |-> <<SystemMessage>>,
                  tool_call_count |-> 0, iteration |-> 0,
                  undo_stack |-> <<>>]
    /\ disk \in disks
    /\ interrupted = FALSE
    /\ stream = StreamNew
    /\ gen = GenNew
    /\ batch = BatchNew
    /\ trace = <<>>
    /\ obs = ObsNew
    /\ console = <<>>

Agent == <<state, pc, turns, config, context, disk, interrupted, stream, gen,
           batch, trace, obs, console>>

Configs(iterations, tool_calls) ==
    [max_iterations : iterations,
     max_tool_calls_per_turn : tool_calls,
     require_approval_moderate : {TRUE},
     require_approval_dangerous : {TRUE},
     auto_read_on_modify : BOOLEAN]

Disks == {d \in [AbsPaths -> {NoFile, "old"}] : d["/w/b.py"] = NoFile}

\* The turn machine: several requests, whole tool calls.
Init ==
    /\ AgentInit(Configs({MaxIterationsCfg}, 1..MaxToolCallsCfg), Disks)
    /\ cm = CmIdle
    /\ acc = AccIdle
    /\ vl = VlIdle
    /\ fn = FnIdle

Next ==
    \/ Process(MaxTurns)
    \/ ProcessTurnLimit
    \/ ProcessTurnThink
    \/ ChatStreamOpen
    \/ ChatStreamLine(TurnLines, 1)
    \/ ChatStreamHeartbeat
    \/ ChatStreamExcept
    \/ ChatStreamExhausted
    \/ ChatStreamRaises(FatalMessages)
    \/ TurnInterrupted
    \/ TurnError
    \/ TurnAnswer
    \/ TurnToolCalls
    \/ ToolCallLimit
    \/ ToolCallSkipped
    \/ ToolCallExecuted
    \/ ProcessReturn

Spec == Init /\ [][Next]_vars

\* The stream machine: one request, one model call, calls sent in pieces.
InitStream ==
    /\ AgentInit(Configs({1}, {1}), Disks)
    /\ cm = CmIdle
    /\ acc = AccIdle
    /\ vl = VlIdle
    /\ fn = FnIdle

NextStream ==
    \/ Process(1)
    \/ ProcessTurnLimit
    \/ ProcessTurnThink
    \/ ChatStreamOpen
    \/ ChatStreamLine(StreamLines, MaxLines)
    \/ ChatStreamHeartbeat
    \/ ChatStreamExcept
    \/ ChatStreamExhausted
    \/ ChatStreamRaises(RaisedMessages)
    \/ TurnInterrupted
    \/ TurnError
    \/ TurnAnswer
    \/ TurnToolCalls
    \/ ToolCallLimit
    \/ ToolCallSkipped
    \/ ToolCallExecuted
    \/ ProcessReturn

SpecStream == InitStream /\ [][NextStream]_vars

\* The turn machine with a backend that also names tools nobody registered.
UnknownCalls ==
    {[name |-> <<"fs.", "delete">>, arguments |-> PathDoc("a.py")],
     [name |-> <<>>, arguments |-> <<>>]}

UnknownLines ==
    [content : {<<>>},
     tool_calls : {<<>>}
        \cup {<<WholeCall(0, u)>> : u \in UnknownCalls}
        \cup {<<WholeCall(0, u), WholeCall(1, c)>> :
                 u \in UnknownCalls, c \in WireCalls \cup UnknownCalls}
        \cup {<<WholeCall(0, c), WholeCall(1, u)>> :
                 c \in WireCalls, u \in UnknownCalls},
     done : BOOLEAN]

NextUnknown ==
    \/ Process(MaxTurns)
    \/ ProcessTurnLimit
    \/ ProcessTurnThink
    \/ ChatStreamOpen
    \/ ChatStreamLine(UnknownLines, 1)
    \/ ChatStreamHeartbeat
    \/ ChatStreamExcept
    \/ ChatStreamExhausted
    \/ ChatStreamRaises(FatalMessages)
    \/ TurnInterrupted
    \/ TurnError
    \/ TurnAnswer
    \/ TurnToolCalls
    \/ ToolCallLimit
    \/ ToolCallSkipped
    \/ ToolCallExecuted
    \/ ProcessReturn

SpecUnknown == Init /\ [][NextUnknown]_vars

-----------------------------------------------------------------------------
(* /undo between two requests *)

\* AgentContext.undo_last_change: the most recent change is popped and
\* its file put back, or deleted when the change created it.
undo_last_change(undo_stack, d) ==
    LET change == undo_stack[Len(undo_stack)] IN
    [undo_stack |-> SubSeq(undo_stack, 1, Len(undo_stack) - 1),
     disk |-> [d EXCEPT ![change.path] =
                  IF change.action = "created" THEN NoFile
                  ELSE change.old_content]]

\* An undo that looks at the last change and leaves it on the stack.
DoUndoPeeking ==
    /\ pc = "idle"
    /\ context.undo_stack # <<>>
    /\ disk' = undo_last_change(context.undo_stack, disk).disk
    /\ UNCHANGED <<state, pc, turns, config, context, interrupted, stream,
                   gen, batch, trace, obs, Harness, console>>

\* _do_undo: nothing to undo, or the user is asked and the change undone.
DoUndo ==
    /\ pc = "idle"
    /\ context.undo_stack # <<>>
    /\ \E response \in {"yes", "no"} :
          IF response = "yes"
              THEN LET undone == undo_last_change(context.undo_stack, disk)
                   IN /\ context' = [context EXCEPT
                                        !.undo_stack = undone.undo_stack]
                      /\ disk' = undone.disk
              ELSE UNCHANGED <<context, disk>>
    /\ UNCHANGED <<state, pc, turns, config, interrupted, stream, gen, batch,
                   trace, obs, Harness, console>>

NextUndo == Next \/ DoUndo

SpecUndo == Init /\ [][NextUndo]_vars

-----------------------------------------------------------------------------
(* run(): Ctrl-C while a request is being processed *)

\* KeyboardInterrupt is raised inside process() and leaves it; run()
\* catches it, prints a hint and prompts for the next input.
KeyboardInterrupt ==
    /\ pc # "idle"
    /\ pc' = "idle"
    /\ console' = Append(console, "Use 'exit' to quit")
    /\ batch' = BatchNew
    /\ ForgetCall
    /\ UNCHANGED <<state, turns, config, context, disk, interrupted, trace,
                   Harness>>

NextRun == Next \/ KeyboardInterrupt

SpecRun == Init /\ [][NextRun]_vars

-----------------------------------------------------------------------------
(* can_modify and add_to_read_set on their own: any files, any read-set,  *)
(* any order of calls.                                                     *)

AllDisks == [AbsPaths -> {NoFile, "old"}]

InitCanModify ==
    /\ AgentInit(Configs({MaxIterationsCfg}, {1}),
                 {[a \in AbsPaths |-> NoFile]})
    /\ config.auto_read_on_modify
    /\ acc = AccIdle
    /\ vl = VlIdle
    /\ fn = FnIdle
    /\ \E d \in AllDisks, rs \in SUBSET AbsPaths :
          cm = [phase |-> "on", disk |-> d, read_set |-> rs, added |-> {},
                asked |-> None, answer |-> None]

CmAddToReadSet ==
    /\ cm.phase = "on"
    /\ \E p \in Spellings :
          cm' = [cm EXCEPT !.read_set = add_to_read_set(@, p),
                           !.added = @ \cup {p},
                           !.asked = None, !.answer = None]
    /\ UNCHANGED <<Agent, acc, vl, fn>>

CmCanModify ==
    /\ cm.phase = "on"
    /\ \E p \in Spellings :
          cm' = [cm EXCEPT !.asked = p,
                           !.answer = can_modify(cm.read_set, cm.disk, p)]
    /\ UNCHANGED <<Agent, acc, vl, fn>>

\* A file appears or disappears between the calls.
CmDiskChange ==
    /\ cm.phase = "on"
    /\ \E a \in AbsPaths, c \in {NoFile, "old"} :
          /\ cm.disk[a] # c
          /\ cm' = [cm EXCEPT !.disk[a] = c, !.asked = None, !.answer = None]
    /\ UNCHANGED <<Agent, acc, vl, fn>>

NextCanModify == CmAddToReadSet \/ CmCanModify \/ CmDiskChange

SpecCanModify == InitCanModify /\ [][NextCanModify]_vars

-----------------------------------------------------------------------------
(* The accumulator on its own: one call, delivered in pieces and whole.    *)

AccDocs ==
    {PathDoc("a.py"), CommandDoc("ls"), <<"{", "}">>, <<>>,
     <<"{", "path:", "a.py">>, <<"a.py">>}

AccCalls ==
    {Fragment(i, id, n, a) :
        i \in 0..MaxIndex, id \in {"", "tc_a"},
        n \in {fs_read, shell_exec}, a \in AccDocs}

InitAccumulate ==
    /\ AgentInit(Configs({MaxIterationsCfg}, {1}),
                 {[a \in AbsPaths |-> NoFile]})
    /\ config.auto_read_on_modify
    /\ cm = CmIdle
    /\ vl = VlIdle
    /\ fn = FnIdle
    /\ \E c \in AccCalls :
          acc = [phase |-> "feeding", call |-> c, rest_name |-> c.name,
                 rest_arguments |-> c.arguments, sizes |-> <<>>,
                 buffer |-> EmptyBuffer, split |-> <<>>, whole |-> <<>>]

Rest(s, n) == SubSeq(s, n + 1, Len(s))

\* The next fragment: a prefix of what is left of the name and of the
\* arguments; the last fragment allowed takes all that is left.
AccFeed ==
    /\ acc.phase = "feeding"
    /\ Len(acc.sizes) < MaxFragments
    /\ \E n \in 0..Len(acc.rest_name), m \in 0..Len(acc.rest_arguments),
          id \in {acc.call.id, ""} :
          /\ acc.sizes = <<>> => id = acc.call.id
          /\ Len(acc.sizes) = MaxFragments - 1 =>
                n = Len(acc.rest_name) /\ m = Len(acc.rest_arguments)
          /\ acc' = [acc EXCEPT
                !.rest_name = Rest(@, n),
                !.rest_arguments = Rest(@, m),
                !.sizes = Append(@, <<n, m>>),
                !.buffer = accumulate_tool_calls(
                    <<Fragment(acc.call.index, id,
                               SubSeq(acc.rest_name, 1, n),
                               SubSeq(acc.rest_arguments, 1, m))>>, @)]
    /\ UNCHANGED <<Agent, cm, vl, fn>>

AccBuild ==
    /\ acc.phase = "feeding"
    /\ acc.sizes # <<>>
    /\ acc.rest_name = <<>> /\ acc.rest_arguments = <<>>
    /\ acc' = [acc EXCEPT
          !.phase = "built",
          !.split = build_tool_calls(acc.buffer),
          !.whole = build_tool_calls(
                        accumulate_tool_calls(<<acc.call>>, EmptyBuffer))]
    /\ UNCHANGED <<Agent, cm, vl, fn>>

NextAccumulate == AccFeed \/ AccBuild

SpecAccumulate == InitAccumulate /\ [][NextAccumulate]_vars

-----------------------------------------------------------------------------
(* verification_loop (execution_loop.py): apply, run, feed back, repeat *)

NoSignature == <<>>

FailOutputs ==
    {<<>>, <<"FAILED t1">>, <<"build error">>, <<"build error", "note">>,
     <<"note">>}

MaxOutputLines == 2

\* The lines of an output, and what the tests of the scan find in them:
\* line.startswith("FAILED"), and "error", "exception", "traceback" in
\* line.lower().
OutputLines ==
    {"", "note", "FAILED t1", "FAILED error", "build error",
     "Error in exception x", "exception x", "Traceback"}

startswith_FAILED(line) == line \in {"FAILED t1", "FAILED error"}

contains_error(line) ==
    line \in {"FAILED error", "build error", "Error in exception x"}

contains_exception(line) == line \in {"Error in exception x", "exception x"}

contains_traceback(line) == line = "Traceback"

\* What the tests of _derive_failure_signature find in a line, in their
\* order; lines are shorter than the 50 characters kept.
LineClass(line) ==
    IF line = "" THEN ""
    ELSE IF startswith_FAILED(line) THEN "FAILED:"
    ELSE IF contains_error(line) THEN "ERROR:"
    ELSE IF contains_exception(line) THEN "EXCEPTION:"
    ELSE IF contains_traceback(line) THEN "TRACEBACK"
    ELSE ""

RECURSIVE scan_reversed(_)
scan_reversed(lines) ==
    IF lines = <<>> THEN NoSignature
    ELSE LET line == lines[Len(lines)]
             class == LineClass(line)
         IN IF class = "" THEN scan_reversed(SubSeq(lines, 1, Len(lines) - 1))
            ELSE IF class = "TRACEBACK" THEN <<"TRACEBACK">>
            ELSE <<class, line>>

derive_failure_signature_none(output) == NoSignature

\* The digest of the last lines stands for itself.
derive_failure_signature(output) ==
    IF output = <<>> THEN <<"EMPTY_OUTPUT">>
    ELSE IF scan_reversed(output) # NoSignature THEN scan_reversed(output)
    ELSE <<"HASH:">> \o output

\* What subprocess.run does with a command: it returns a process with a
\* returncode and its output, or raises TimeoutExpired or another error.
CmdOutcomes ==
    {[kind |-> "exit0", returncode |-> 0, output |-> <<>>],
     [kind |-> "timeout", returncode |-> None, output |-> <<>>],
     [kind |-> "exception", returncode |-> None, output |-> <<>>]}
    \cup {[kind |-> "nonzero", returncode |-> IF o = <<"note">> THEN 2 ELSE 1,
           output |-> o] : o \in FailOutputs}

\* subprocess_runs counts the calls of subprocess.run that were made.
ExecutionResult(success, exit_code, failure_signature, stderr_tail) ==
    [success |-> success, exit_code |-> exit_code,
     failure_signature |-> failure_signature, stderr_tail |-> stderr_tail,
     subprocess_runs |-> 0]

\* except subprocess.TimeoutExpired / except Exception: the exit code is
\* left as it is.
except_run(result, failure_signature, message) ==
    [result EXCEPT !.success = FALSE,
                   !.failure_signature = failure_signature,
                   !.stderr_tail = @ \o <<message>>]

\* The for loop of run_commands: the commands in order, up to the first
\* that fails.
RECURSIVE for_cmd(_, _)
for_cmd(outcomes, result) ==
    IF outcomes = <<>> THEN result
    ELSE LET proc == Head(outcomes)
             called == [result EXCEPT !.subprocess_runs = @ + 1]
             returned == [called EXCEPT !.exit_code = proc.returncode,
                                        !.stderr_tail = @ \o proc.output]
         IN IF proc.kind = "timeout"
                THEN except_run(called, <<"TIMEOUT">>, "timed out")
            ELSE IF proc.kind = "exception"
                THEN except_run(called, <<"EXCEPTION:", "OSError">>,
                                "os error")
            ELSE IF proc.returncode # 0
                THEN [returned EXCEPT
                        !.success = FALSE,
                        !.failure_signature =
                            derive_failure_signature(proc.output)]
            ELSE for_cmd(Tail(outcomes), returned)

\* A run_commands for which nothing to run is a failure.
run_commands_needing_one(outcomes) ==
    for_cmd(outcomes, ExecutionResult(outcomes # <<>>, -1,
                                      IF outcomes = <<>>
                                          THEN <<"EMPTY_OUTPUT">>
                                          ELSE NoSignature, <<>>))

run_commands(outcomes) ==
    for_cmd(outcomes, ExecutionResult(TRUE, -1, NoSignature, <<>>))

\* apply_edits.  The repository root is /w; an edit names a path below it.
FileEdit(path, action, content) ==
    [path |-> path, action |-> action, content |-> content]

EditPaths == {"a.py", "b.py"}

Edits ==
    {FileEdit(p, a, c) : p \in EditPaths,
                         a \in {"create", "modify", "delete", "rename"},
                         c \in {None, "new"}}

\* path = root / edit.path
root_path(path) == "/w/" \o path

\* The body of the try block for one edit; raises says that the file
\* system refuses the operation with an exception.
apply_edit(edit, d, raises) ==
    LET path == root_path(edit.path) IN
    IF edit.action = "delete"
        THEN IF exists(d, path) /\ ~raises
                 THEN [disk |-> [d EXCEPT ![path] = NoFile], modified |-> TRUE]
                 ELSE [disk |-> d, modified |-> FALSE]
    ELSE IF edit.action \in {"create", "modify"}
        THEN IF edit.content # None /\ ~raises
                 THEN [disk |-> [d EXCEPT ![path] = edit.content],
                       modified |-> TRUE]
                 ELSE [disk |-> d, modified |-> FALSE]
    ELSE [disk |-> d, modified |-> FALSE]

\* A loop that gives up at the first exception.
RECURSIVE apply_edits_aborting(_, _, _)
apply_edits_aborting(edits, d, raises) ==
    IF edits = <<>> \/ Head(raises) THEN [modified |-> <<>>, disk |-> d]
    ELSE LET one == apply_edit(Head(edits), d, FALSE)
             rest == apply_edits_aborting(Tail(edits), one.disk, Tail(raises))
         IN [modified |-> (IF one.modified THEN <<Head(edits).path>>
                           ELSE <<>>) \o rest.modified,
             disk |-> rest.disk]

\* for edit in edits: try ... except Exception: print, and go on.
RECURSIVE apply_edits(_, _, _)
apply_edits(edits, d, raises) ==
    IF edits = <<>> THEN [modified |-> <<>>, disk |-> d]
    ELSE LET one == apply_edit(Head(edits), d, Head(raises))
             rest == apply_edits(Tail(edits), one.disk, Tail(raises))
         IN [modified |-> (IF one.modified THEN <<Head(edits).path>>
                           ELSE <<>>) \o rest.modified,
             disk |-> rest.disk]

\* The batches of edits a model output is parsed into.
ModelEdits ==
    {<<>>, <<FileEdit("a.py", "create", "new")>>,
     <<FileEdit("a.py", "delete", None), FileEdit("b.py", "modify", "new")>>}

\* What model_call_fn gives: a dict that _parse_edits reads as a batch of
\* edits, a value it cannot read, or an exception.
ModelOutcomes ==
    {[kind |-> "dict", edits |-> b] : b \in ModelEdits}
    \cup {[kind |-> "unreadable", edits |-> <<>>],
          [kind |-> "raises", edits |-> <<>>]}

\* A record that leaves the edits out.
LoopIteration_without_edits(iteration, edits_applied, commands_run, success, failure_signature) ==
    [iteration |-> iteration, edits_applied |-> 0,
     commands_run |-> commands_run,
     success |-> success, failure_signature |-> failure_signature]

\* commands_run is the number of commands of the list it holds.
LoopIteration(iteration, edits_applied, commands_run, success, failure_signature) ==
    [iteration |-> iteration, edits_applied |-> edits_applied,
     commands_run |-> commands_run,
     success |-> success, failure_signature |-> failure_signature]

Diagnoses == {"d1", "d2"}

job_prompt == <<"job">>

unblocked_context(diagnosis, stderr_tail) ==
    job_prompt \o <<"UNBLOCKER DIAGNOSIS:", diagnosis, "LAST ERROR:">>
        \o stderr_tail

failed_context(i, exec_result) ==
    job_prompt \o <<"ITERATION", ToString(i), "FAILED:">>
        \o exec_result.failure_signature \o <<"STDERR:">>
        \o exec_result.stderr_tail

has_next_one_more(i, max_iterations) == i <= max_iterations + 1

\* for i in range(1, max_iterations + 1)
has_next(i, max_iterations) == i <= max_iterations

VlNew_failure(max_iterations, unblocker, commands) ==
    [pc |-> "call", i |-> 1, max_iterations |-> max_iterations,
     unblocker |-> unblocker, commands |-> commands,
     status |-> "failure", iterations |-> <<>>,
     final_result |-> NoSignature, has_final |-> FALSE,
     edits_total |-> 0, unblocker_invoked |-> FALSE,
     failure_history |-> {}, context |-> job_prompt,
     modified |-> <<>>, exec_result |-> ExecutionResult(TRUE, -1, NoSignature, <<>>),
     prompts |-> <<>>, runs |-> 0, applies |-> 0, diagnoses |-> <<>>,
     took |-> <<>>, ran |-> <<>>, raised_at |-> 0]

VlNew(max_iterations, unblocker, commands) ==
    [pc |-> "call", i |-> 1, max_iterations |-> max_iterations,
     unblocker |-> unblocker, commands |-> commands,
     status |-> "max_iterations", iterations |-> <<>>,
     final_result |-> NoSignature, has_final |-> FALSE,
     edits_total |-> 0, unblocker_invoked |-> FALSE,
     failure_history |-> {}, context |-> job_prompt,
     modified |-> <<>>, exec_result |-> ExecutionResult(TRUE, -1, NoSignature, <<>>),
     prompts |-> <<>>, runs |-> 0, applies |-> 0, diagnoses |-> <<>>,
     took |-> <<>>, ran |-> <<>>, raised_at |-> 0]

\* An except branch that goes on with the next iteration.
except_model_call_continue(v) ==
    [v EXCEPT !.status = "failure", !.i = @ + 1, !.pc = "call"]

\* except Exception around model_call_fn: the status is set and the loop
\* left.
except_model_call(v) == [v EXCEPT !.status = "failure", !.pc = "finish"]

\* model_call_fn(context) and the except branch around it, _parse_edits
\* and apply_edits.  took and ran keep, for every iteration, how many
\* edits took effect and what run_commands did, raised_at the iteration
\* in which model_call_fn raised.
VlModelCall ==
    /\ vl.pc = "call"
    /\ has_next(vl.i, vl.max_iterations)
    /\ \E m \in ModelOutcomes, raises \in [1..MaxEdits -> BOOLEAN] :
          LET applied == apply_edits(m.edits, disk,
                                     SubSeq(raises, 1, Len(m.edits)))
          IN /\ vl' = IF m.kind = "raises"
                        THEN except_model_call(
                                 [vl EXCEPT !.prompts = Append(@, vl.context),
                                            !.raised_at = vl.i])
                      ELSE IF m.kind = "unreadable"
                        THEN [vl EXCEPT !.prompts = Append(@, vl.context),
                                        !.pc = "raised"]
                      ELSE [vl EXCEPT
                              !.prompts = Append(@, vl.context),
                              !.modified = applied.modified,
                              !.edits_total = @ + Len(applied.modified),
                              !.applies = @ + 1,
                              !.took = Append(@,
                                  Cardinality({k \in 1..Len(m.edits) :
                                      apply_edits(SubSeq(m.edits, 1, k), disk,
                                                  SubSeq(raises, 1, k)).modified
                                      # apply_edits(SubSeq(m.edits, 1, k - 1),
                                                    disk,
                                                    SubSeq(raises, 1, k - 1))
                                            .modified})),
                              !.pc = "run"]
             /\ disk' = IF m.kind = "dict" THEN applied.disk ELSE disk
    /\ UNCHANGED <<state, pc, turns, config, context, interrupted, stream,
                   gen, batch, trace, obs, console, cm, acc, fn>>

VlSucceeded_no_break(v) ==
    [v EXCEPT !.status = "success", !.has_final = TRUE,
              !.i = @ + 1, !.pc = "call"]

\* The commands passed: the status, the final result, and the break.
VlSucceeded(v) ==
    [v EXCEPT !.status = "success", !.has_final = TRUE, !.pc = "finish"]

\* The next iteration's context, after a failure that does not end the run.
VlContinue(v, exec_result) ==
    [v EXCEPT !.context = failed_context(v.i, exec_result),
              !.i = @ + 1, !.pc = "call"]

\* run_commands, the iteration's record, and what the outcome leads to.
VlRunCommands ==
    /\ vl.pc = "run"
    /\ \E outcomes \in [1..vl.commands -> CmdOutcomes] :
          LET exec_result == run_commands(outcomes)
              v1 == [vl EXCEPT
                       !.runs = @ + 1,
                       !.ran = Append(@, exec_result),
                       !.exec_result = exec_result,
                       !.iterations = Append(@,
                           LoopIteration(vl.i, Len(vl.modified),
                                         vl.commands,
                                         exec_result.success,
                                         exec_result.failure_signature))]
              sig == exec_result.failure_signature
          IN vl' =
               IF exec_result.success
                   THEN VlSucceeded(v1)
               ELSE IF sig # NoSignature /\ sig \in vl.failure_history
                   THEN IF vl.unblocker
                            THEN [v1 EXCEPT !.unblocker_invoked = TRUE,
                                            !.pc = "unblock"]
                            ELSE [v1 EXCEPT !.status = "stalled",
                                            !.final_result = sig,
                                            !.has_final = TRUE,
                                            !.pc = "finish"]
               ELSE VlContinue(
                        [v1 EXCEPT !.failure_history =
                            IF sig # NoSignature THEN @ \cup {sig} ELSE @],
                        exec_result)
    /\ UNCHANGED <<Agent, cm, acc, fn>>

\* unblocker_fn(signature): its diagnosis goes into the context, and the
\* context is then set for the next iteration; an exception of the
\* unblocker leaves verification_loop.
VlUnblock ==
    /\ vl.pc = "unblock"
    /\ \/ \E d \in Diagnoses :
            LET v1 == [vl EXCEPT
                         !.diagnoses = Append(@, [at |-> vl.i, text |-> d]),
                         !.context = unblocked_context(
                                         d, vl.exec_result.stderr_tail)]
            IN vl' = VlContinue(v1, vl.exec_result)
       \/ vl' = [vl EXCEPT !.pc = "raised"]
    /\ UNCHANGED <<Agent, cm, acc, fn>>

\* After the loop: the result is completed and returned.
VlReturn ==
    /\ \/ vl.pc = "finish"
       \/ vl.pc = "call" /\ ~has_next(vl.i, vl.max_iterations)
    /\ vl' = IF vl.status = "max_iterations" /\ vl.iterations # <<>>
               THEN [vl EXCEPT
                       !.final_result =
                           vl.iterations[Len(vl.iterations)].failure_signature,
                       !.has_final = TRUE, !.pc = "returned"]
               ELSE [vl EXCEPT !.pc = "returned"]
    /\ UNCHANGED <<Agent, cm, acc, fn>>

InitVerify ==
    /\ AgentInit(Configs({MaxIterationsCfg}, {1}),
                 {[a \in AbsPaths |-> NoFile]})
    /\ config.auto_read_on_modify
    /\ cm = CmIdle
    /\ acc = AccIdle
    /\ fn = FnIdle
    /\ \E n \in 0..MaxVerifyIterations, u \in BOOLEAN, c \in 0..MaxCommands :
          vl = VlNew(n, u, c)

NextVerify == VlModelCall \/ VlRunCommands \/ VlUnblock \/ VlReturn

SpecVerify == InitVerify /\ [][NextVerify]_vars

\* verification_loop is sequential code: it takes its next step whenever
\* the function it called has returned or raised.
SpecVerifyFair == SpecVerify /\ WF_vars(NextVerify)

-----------------------------------------------------------------------------
(* Intent routing (intent.py).  A text is the sequence of its words, a    *)
(* blank between two of them; "  " is a run of further blanks.            *)

RawWords ==
    {"hello", "Swift", "broken", "write", "audit", "error", "fix", "review",
     "not", "working", "why", "ok?", "  "}

\* A normalization that leaves the case of the letters alone.
RECURSIVE normalize_case_kept(_)
normalize_case_kept(user_text) ==
    IF user_text = <<>> THEN <<>>
    ELSE (IF Head(user_text) = "  " THEN <<>> ELSE <<Head(user_text)>>)
         \o normalize_case_kept(Tail(user_text))

\* lower(), strip() and the collapse of whitespace.
RECURSIVE normalize(_)
normalize(user_text) ==
    IF user_text = <<>> THEN <<>>
    ELSE LET w == Head(user_text) IN
         (IF w = "  " THEN <<>>
          ELSE IF w = "Swift" THEN <<"swift">>
          ELSE <<w>>) \o normalize(Tail(user_text))

\* The members of HARD_MODE_TOKENS, DIAGNOSE_TRIGGERS, CODE_WRITE_TRIGGERS
\* and REVIEW_TRIGGERS that are substrings of a word.
Found(triggers, w) ==
    CASE triggers = "HARD_MODE_TOKENS" ->
            (CASE w = "swift"  -> {"swift"}
               [] w = "error"  -> {"error"}
               [] w = "fix"    -> {"fix"}
               [] w = "review" -> {"review", "view"}
               [] OTHER        -> {})
      [] triggers = "DIAGNOSE_TRIGGERS" ->
            (CASE w = "broken" -> {"broken"}
               [] w = "error"  -> {"error"}
               [] OTHER        -> {})
      [] triggers = "CODE_WRITE_TRIGGERS" ->
            (CASE w = "write" -> {"write"}
               [] w = "fix"   -> {"fix"}
               [] OTHER       -> {})
      [] triggers = "REVIEW_TRIGGERS" ->
            (CASE w = "audit"  -> {"audit"}
               [] w = "review" -> {"review"}
               [] OTHER        -> {})

\* [t for t in triggers if t in text]; "not working" is the trigger of two
\* words.
matches(triggers, text) ==
    UNION {Found(triggers, text[i]) : i \in 1..Len(text)}
    \cup (IF /\ triggers = "DIAGNOSE_TRIGGERS"
             /\ \E i \in 1..(Len(text) - 1) :
                   text[i] = "not" /\ text[i + 1] = "working"
             THEN {"not working"} ELSE {})

Intents ==
    {"CHAT", "CODE_WRITE", "CODE_REVIEW_QUICK", "CODE_REVIEW_EXHAUSTIVE",
     "DIAGNOSE", "RESEARCH"}

\* A dataclass that keeps what its constructor was given.
IntentDecision_as_given(intent, confidence, hard_mode_triggered, matched_tokens, requires_repo, requires_execution_loop) ==
    [intent |-> intent, confidence |-> confidence,
     hard_mode_triggered |-> hard_mode_triggered,
     matched_tokens |-> matched_tokens,
     requires_repo |-> requires_repo,
     requires_execution_loop |-> requires_execution_loop]

\* The dataclass and its __post_init__; confidence in hundredths.
IntentDecision(intent, confidence, hard_mode_triggered, matched_tokens, requires_repo, requires_execution_loop) ==
    [intent |-> intent, confidence |-> confidence,
     hard_mode_triggered |-> hard_mode_triggered,
     matched_tokens |-> matched_tokens,
     requires_repo |-> intent \in {"CODE_WRITE", "CODE_REVIEW_EXHAUSTIVE",
                                   "CODE_REVIEW_QUICK", "DIAGNOSE",
                                   "RESEARCH"},
     requires_execution_loop |-> intent \in {"CODE_WRITE", "DIAGNOSE"}]

classify_intent(user_text) ==
    LET text == normalize(user_text)
        matched_tokens == matches("HARD_MODE_TOKENS", text)
        diagnose_matches == matches("DIAGNOSE_TRIGGERS", text)
        write_matches == matches("CODE_WRITE_TRIGGERS", text)
        review_matches == matches("REVIEW_TRIGGERS", text)
        confidence(m) == IF Cardinality(m) > 1 THEN 95 ELSE 85
    IN IF matched_tokens # {}
         THEN IF diagnose_matches # {}
                THEN IntentDecision("DIAGNOSE", confidence(diagnose_matches),
                                    TRUE, matched_tokens, FALSE, FALSE)
              ELSE IF write_matches # {}
                THEN IntentDecision("CODE_WRITE", confidence(write_matches),
                                    TRUE, matched_tokens, FALSE, FALSE)
              ELSE IF review_matches # {}
                THEN IntentDecision("CODE_REVIEW_EXHAUSTIVE",
                                    confidence(review_matches),
                                    TRUE, matched_tokens, FALSE, FALSE)
              ELSE IntentDecision("CODE_REVIEW_EXHAUSTIVE", 80, TRUE,
                                  matched_tokens, FALSE, FALSE)
       ELSE IF review_matches # {}
         THEN IntentDecision("CODE_REVIEW_QUICK", 75, FALSE, {}, FALSE, FALSE)
       ELSE IF /\ text # <<>>
               /\ text[Len(text)] = "ok?" \/ text[1] = "why"
         THEN IntentDecision("RESEARCH", 70, FALSE, {}, FALSE, FALSE)
       ELSE IntentDecision("CHAT", 60, FALSE, {}, FALSE, FALSE)

Texts == UNION {[1..n -> RawWords] : n \in 0..MaxWords}

\* The functions on their own: each run applies one of them once, to an
\* input drawn at its start.
InitFunctions ==
    /\ AgentInit(Configs({MaxIterationsCfg}, {1}),
                 {[a \in AbsPaths |-> NoFile]})
    /\ config.auto_read_on_modify
    /\ cm = CmIdle
    /\ acc = AccIdle
    /\ vl = VlIdle
    /\ \/ \E t \in Texts :
            fn = [op |-> "classify_intent", input |-> t, done |-> FALSE]
       \/ \E i \in Intents, repo, loop \in BOOLEAN :
            fn = [op |-> "IntentDecision",
                  input |-> [intent |-> i, requires_repo |-> repo,
                             requires_execution_loop |-> loop],
                  done |-> FALSE]
       \/ \E n \in 0..MaxCommands : \E outcomes \in [1..n -> CmdOutcomes] :
            fn = [op |-> "run_commands", input |-> outcomes, done |-> FALSE]
       \/ \E n \in 0..MaxEdits :
            \E edits \in [1..n -> Edits], raises \in [1..n -> BOOLEAN],
               d \in AllDisks :
                fn = [op |-> "apply_edits",
                      input |-> [edits |-> edits, raises |-> raises,
                                 disk |-> d],
                      done |-> FALSE]
       \/ \E n \in 0..MaxOutputLines : \E output \in [1..n -> OutputLines] :
            fn = [op |-> "_derive_failure_signature", input |-> output,
                  done |-> FALSE]

FnClassifyIntent ==
    /\ fn.op = "classify_intent" /\ ~fn.done
    /\ fn' = [op |-> fn.op, input |-> fn.input, done |-> TRUE,
              output |-> classify_intent(fn.input)]
    /\ UNCHANGED <<Agent, cm, acc, vl>>

FnIntentDecision ==
    /\ fn.op = "IntentDecision" /\ ~fn.done
    /\ \E hard \in BOOLEAN, tokens \in {{}, {"swift"}} :
          fn' = [op |-> fn.op, input |-> fn.input, done |-> TRUE,
                 output |-> IntentDecision(fn.input.intent, 60, hard, tokens,
                                fn.input.requires_repo,
                                fn.input.requires_execution_loop)]
    /\ UNCHANGED <<Agent, cm, acc, vl>>

FnRunCommands ==
    /\ fn.op = "run_commands" /\ ~fn.done
    /\ fn' = [op |-> fn.op, input |-> fn.input, done |-> TRUE,
              output |-> run_commands(fn.input)]
    /\ UNCHANGED <<Agent, cm, acc, vl>>

FnApplyEdits ==
    /\ fn.op = "apply_edits" /\ ~fn.done
    /\ fn' = [op |-> fn.op, input |-> fn.input, done |-> TRUE,
              output |-> apply_edits(fn.input.edits, fn.input.disk,
                                     fn.input.raises)]
    /\ UNCHANGED <<Agent, cm, acc, vl>>

FnDeriveFailureSignature ==
    /\ fn.op = "_derive_failure_signature" /\ ~fn.done
    /\ fn' = [op |-> fn.op, input |-> fn.input, done |-> TRUE,
              output |-> derive_failure_signature(fn.input)]
    /\ UNCHANGED <<Agent, cm, acc, vl>>

NextFunctions ==
    \/ FnClassifyIntent
    \/ FnIntentDecision
    \/ FnRunCommands
    \/ FnApplyEdits
    \/ FnDeriveFailureSignature

SpecFunctions == InitFunctions /\ [][NextFunctions]_vars

-----------------------------------------------------------------------------
(* One create or modify edit of apply_edits, step by step, next to a       *)
(* process that reads the destination path.  A directory gives names to    *)
(* inodes; an open file is an inode, whatever the names do afterwards.     *)

MaxReads == 2

\* Contents are sequences of the pieces in which they reach the disk.
OldContents == {<<"o1">>, <<"o1", "o2">>}

NewContents == {<<>>, <<"n1">>, <<"n1", "n2">>}

NoInode == "none"

DestInode == "inode 1"

TmpInode == "inode 2"

\* What is found at a path: no file, or a file with its content.
Missing == [exists |-> FALSE, content |-> <<>>]

File(content) == [exists |-> TRUE, content |-> content]

\* The same edit with open(path, "w"): the destination itself is
\* truncated, or created, and written.
open_path_w(f) ==
    IF f.dir.dest = NoInode
        THEN [f EXCEPT !.dir.dest = TmpInode, !.dir.tmp = TmpInode,
                       !.inodes[TmpInode] = <<>>,
                       !.tmp = TmpInode, !.pc = "open"]
        ELSE [f EXCEPT !.dir.tmp = f.dir.dest, !.inodes[f.dir.dest] = <<>>,
                       !.tmp = f.dir.dest, !.pc = "open"]

\* tempfile.NamedTemporaryFile(mode="w", dir=path.parent, delete=False,
\* suffix=".tmp"): a new, empty file under a new name of the directory.
NamedTemporaryFile(f) ==
    [f EXCEPT !.dir.tmp = TmpInode, !.inodes[TmpInode] = <<>>,
              !.tmp = TmpInode, !.pc = "open"]

\* os.replace(tmp_path, path): the destination name is given the inode of
\* the temporary name, which disappears, in one step.
os_replace(f) ==
    [f EXCEPT !.dir.dest = f.dir.tmp, !.dir.tmp = NoInode, !.pc = "replaced"]

\* What a reader that opens the destination path now and reads to the end
\* without interference gets.
at_path(f) ==
    IF f.dir.dest = NoInode THEN Missing ELSE File(f.inodes[f.dir.dest])

InitApplyEdit ==
    /\ AgentInit(Configs({MaxIterationsCfg}, {1}),
                 {[a \in AbsPaths |-> NoFile]})
    /\ config.auto_read_on_modify
    /\ cm = CmIdle
    /\ acc = AccIdle
    /\ vl = VlIdle
    /\ \E old \in {Missing} \cup {File(c) : c \in OldContents},
          content \in NewContents,
          action \in {"create", "modify"} :
          fn = [op |-> "apply_edit", pc |-> "start",
                edit |-> FileEdit("a.py", action, content),
                old |-> old,
                dir |-> [dest |-> IF old.exists THEN DestInode ELSE NoInode,
                         tmp |-> NoInode],
                inodes |-> [i \in {DestInode, TmpInode} |->
                               IF i = DestInode THEN old.content ELSE <<>>],
                tmp |-> NoInode,
                reader |-> [pc |-> "closed", inode |-> NoInode, got |-> <<>>,
                            opened_at |-> "start"],
                reads |-> <<>>]

Editing == fn.op = "apply_edit"

\* path.parent.mkdir(parents=True, exist_ok=True) and NamedTemporaryFile.
EditOpenTmp ==
    /\ Editing /\ fn.pc = "start"
    /\ fn' = NamedTemporaryFile(fn)
    /\ UNCHANGED <<Agent, cm, acc, vl>>

\* tmp.write(edit.content): the text goes through the file's buffer, and
\* a piece of it may reach the disk before the file is closed.
EditWrite ==
    /\ Editing /\ fn.pc = "open"
    /\ Len(fn.inodes[fn.tmp]) < Len(fn.edit.content)
    /\ fn' = [fn EXCEPT !.inodes[fn.tmp] =
                 Append(@, fn.edit.content[Len(@) + 1])]
    /\ UNCHANGED <<Agent, cm, acc, vl>>

\* The end of the with block: the rest of the buffer is written and the
\* file closed.
EditClose ==
    /\ Editing /\ fn.pc = "open"
    /\ fn' = [fn EXCEPT !.inodes[fn.tmp] = fn.edit.content, !.pc = "closed"]
    /\ UNCHANGED <<Agent, cm, acc, vl>>

EditReplace ==
    /\ Editing /\ fn.pc = "closed"
    /\ fn' = os_replace(fn)
    /\ UNCHANGED <<Agent, cm, acc, vl>>

\* An exception of the write, the close or the replace: except Exception
\* prints a warning, and the temporary file stays where it is.
EditRaises ==
    /\ Editing /\ fn.pc \in {"open", "closed"}
    /\ fn' = [fn EXCEPT !.pc = "failed"]
    /\ UNCHANGED <<Agent, cm, acc, vl>>

\* The reader opens the destination path: no such file, or its inode.
ReaderOpen ==
    /\ Editing /\ fn.reader.pc = "closed"
    /\ Len(fn.reads) < MaxReads
    /\ fn' = IF fn.dir.dest = NoInode
               THEN [fn EXCEPT !.reads =
                        Append(@, [seen |-> Missing, opened_at |-> fn.pc,
                                   closed_at |-> fn.pc])]
               ELSE [fn EXCEPT !.reader =
                        [pc |-> "open", inode |-> fn.dir.dest, got |-> <<>>,
                         opened_at |-> fn.pc]]
    /\ UNCHANGED <<Agent, cm, acc, vl>>

\* The reader reads the next piece of the file it has open, or finds its
\* end and closes it.
ReaderRead ==
    /\ Editing /\ fn.reader.pc = "open"
    /\ LET file == fn.inodes[fn.reader.inode]
           at == Len(fn.reader.got)
       IN fn' = IF at < Len(file)
                  THEN [fn EXCEPT !.reader.got = Append(@, file[at + 1])]
                  ELSE [fn EXCEPT
                          !.reads = Append(@,
                              [seen |-> File(fn.reader.got),
                               opened_at |-> fn.reader.opened_at,
                               closed_at |-> fn.pc]),
                          !.reader.pc = "closed"]
    /\ UNCHANGED <<Agent, cm, acc, vl>>

NextApplyEdit ==
    \/ EditOpenTmp
    \/ EditWrite
    \/ EditClose
    \/ EditReplace
    \/ EditRaises
    \/ ReaderOpen
    \/ ReaderRead

SpecApplyEdit == InitApplyEdit /\ [][NextApplyEdit]_vars

-----------------------------------------------------------------------------
(* Properties *)

\* Events i and j of the request's history belong to the same call of a
\* batch: every call that passes the limit check ends with a result event.
InGroup(i, j) == i < j /\ \A k \in i..(j - 1) : trace[k].kind # "result"

Modifiers == {fs_write, fs_edit}

Risky(name) == registry_get(name) \in {"MODERATE", "DANGEROUS"}

RECURSIVE Executions(_)
Executions(events) ==
    IF events = <<>> THEN 0
    ELSE (IF Head(events).kind = "exec" THEN 1 ELSE 0)
         + Executions(Tail(events))

\* C1: within a request at most max_tool_calls_per_turn invocations of a
\* tool's execute happen, the automatic reads included.
ToolCallBudget == Executions(trace) <= config.max_tool_calls_per_turn

AutoReadFailed(j) ==
    \E i \in 1..Len(trace) :
        /\ InGroup(i, j)
        /\ trace[i].kind = "exec" /\ trace[i].call = "auto_read"
        /\ trace[i].outcome = "failed"

ModifierRan(j) ==
    \E i \in 1..Len(trace) :
        InGroup(i, j) /\ trace[i].kind = "exec" /\ trace[i].name \in Modifiers

\* C2: fs.write and fs.edit run on an existing path only when its resolved
\* form is in the read-set at that moment; a call on an existing unread
\* path, with auto-read off or the automatic read failing, ends in a failed
\* result without the modifying tool having run.
ReadBeforeModify ==
    \A j \in 1..Len(trace) :
        LET e == trace[j] IN
        /\ (e.kind = "exec" /\ e.name \in Modifiers /\ e.existed)
              => e.was_read
        /\ (/\ e.kind = "result" /\ e.outcome # "skipped"
            /\ e.name \in Modifiers /\ e.existed /\ ~e.was_read
            /\ (~config.auto_read_on_modify \/ AutoReadFailed(j)))
              => (e.outcome = "failed" /\ ~ModifierRan(j))

\* One request holds a write blocked by a failed automatic read and a write
\* that ran on an existing file after a successful one.
ReadBeforeModifyWitness ==
    \E j, k \in 1..Len(trace) :
        /\ trace[j].kind = "result" /\ trace[j].name = fs_write
        /\ trace[j].existed /\ ~trace[j].was_read
        /\ AutoReadFailed(j) /\ trace[j].outcome = "failed"
        /\ trace[k].kind = "exec" /\ trace[k].name = fs_write
        /\ trace[k].existed /\ trace[k].was_read

\* C3: can_modify refuses an existing path whose resolved form is not in
\* the read-set, allows every spelling of a path added with
\* add_to_read_set, and allows a path that does not exist whatever the
\* read-set holds.
CanModifyContract ==
    (cm.phase = "on" /\ cm.asked # None) =>
        LET resolved == resolve(cm.asked) IN
        /\ (exists(cm.disk, resolved) /\ resolved \notin cm.read_set)
              => (~cm.answer.allowed /\ cm.answer.reason # "")
        /\ (\E q \in cm.added : resolve(q) = resolved) => cm.answer.allowed
        /\ ~exists(cm.disk, resolved) => cm.answer.allowed

\* An existing file was added under one spelling and asked for under another.
CanModifyWitness ==
    /\ cm.phase = "on"
    /\ cm.asked = "./a.py" /\ cm.added = {"a.py"}
    /\ exists(cm.disk, "/w/a.py")
    /\ cm.answer.allowed

\* C4: a MODERATE or DANGEROUS tool runs only after "yes" to the prompt of
\* its own call or after "all" to a prompt earlier in the request; a SAFE
\* tool runs without a prompt for its call.
ApprovedBeforeExecuted ==
    \A j \in 1..Len(trace) :
        LET e == trace[j] IN
        e.kind = "exec" =>
            /\ Risky(e.name) =>
                  \E i \in 1..(j - 1) :
                      /\ trace[i].kind = "prompt"
                      /\ \/ trace[i].answer = "all"
                         \/ /\ InGroup(i, j) /\ trace[i].call = e.call
                            /\ trace[i].answer = "yes"
            /\ registry_get(e.name) = "SAFE" =>
                  ~\E i \in 1..(j - 1) :
                      /\ InGroup(i, j) /\ trace[i].kind = "prompt"
                      /\ trace[i].name = e.name

\* After "all", a write ran without a prompt of its own, and a read ran
\* without any.
ApprovedBeforeExecutedWitness ==
    \E h, j, k \in 1..Len(trace) :
        /\ h < j
        /\ trace[h].kind = "prompt" /\ trace[h].answer = "all"
        /\ trace[j].kind = "exec" /\ trace[j].name = fs_write
        /\ ~\E i \in 1..(j - 1) : InGroup(i, j) /\ trace[i].kind = "prompt"
        /\ trace[k].kind = "exec" /\ trace[k].name = fs_read

\* C5: "all" lasts until the end of its request: in a request that has
\* seen no "all" yet, a MODERATE or DANGEROUS call needs approval, also
\* when the request before it saw "all".
ApproveAllEndsWithRequest ==
    (pc = "tools" /\ Risky(batch.calls[batch.pos].name) /\ ~HadAll(trace))
        => needs_approval(batch.calls[batch.pos], config)

\* The first risky call of the request after one in which "all" was given.
ApproveAllEndsWithRequestWitness ==
    /\ pc = "tools" /\ turns = 2
    /\ trace[1].kind = "begin" /\ trace[1].answer = "all"
    /\ Len(trace) = 1
    /\ Risky(batch.calls[batch.pos].name)

\* The step in which the user answers "no" to the prompt of a call.
Rejection ==
    /\ pc = "tools"
    /\ Len(trace') = Len(trace) + 2
    /\ trace'[Len(trace) + 1].kind = "prompt"
    /\ trace'[Len(trace) + 1].answer = "no"

\* C6: a rejected call appends exactly one tool message with the call's id
\* and skipped set, runs no tool (files, read-set and undo stack stay as
\* they are), and the loop goes on with the next call of the batch.
RejectionIsSkipped ==
    [][Rejection =>
        LET tool_call == batch.calls[batch.pos]
            n == Len(context.messages)
        IN /\ Len(context'.messages) = n + 1
           /\ SubSeq(context'.messages, 1, n) = context.messages
           /\ context'.messages[n + 1].role = "tool"
           /\ context'.messages[n + 1].tool_call_id = tool_call.id
           /\ context'.messages[n + 1].result.skipped
           /\ trace'[Len(trace) + 2].kind = "result"
           /\ disk' = disk
           /\ context'.read_set = context.read_set
           /\ context'.undo_stack = context.undo_stack
           /\ IF batch.pos < Len(batch.calls)
                 THEN pc' = "tools" /\ batch' = [batch EXCEPT !.pos = @ + 1]
                 ELSE pc' = "turn"]_vars

\* The first call of a batch of two was rejected; the second is next.
RejectionIsSkippedWitness ==
    /\ pc = "tools" /\ batch.pos = 2
    /\ Len(trace) >= 3
    /\ trace[Len(trace)].kind = "result"
    /\ trace[Len(trace)].outcome = "skipped"
    /\ trace[Len(trace) - 1].kind = "prompt"
    /\ trace[Len(trace) - 1].answer = "no"
    /\ context.messages[Len(context.messages)].result.skipped

\* C7: when the stream ended with a line marked done, the response
\* _stream_response returns holds one finalized ToolCall per accumulated
\* index, in index order.
DoneCarriesToolCalls ==
    (pc = "respond" /\ gen.done_seen /\ ~obs.esc) =>
        stream.final_response.tool_calls
            = build_tool_calls(gen.tool_calls_buffer)

\* C8: a call delivered in consecutive fragments of its name and arguments
\* finalizes to the same ToolCall as the call delivered in one fragment.
ChunkSplitInvariance ==
    acc.phase = "built" => acc.split = acc.whole

\* Name and arguments of a call with a path were both cut in two.
ChunkSplitWitness ==
    /\ acc.phase = "built"
    /\ acc.call.arguments = PathDoc("a.py") /\ acc.call.id = "tc_a"
    /\ \E i, j \in 1..Len(acc.sizes) :
          /\ i < j
          /\ acc.sizes[i][1] >= 1 /\ acc.sizes[j][1] >= 1
          /\ acc.sizes[i][2] >= 1 /\ acc.sizes[j][2] >= 1
    /\ acc.whole[1].arguments.path = "a.py"

\* C9: ESC seen at a poll ends the call with interrupted set, the content
\* of the responses consumed before that poll, and no tool calls.
EscDiscardsToolCalls ==
    (pc = "respond" /\ obs.esc) =>
        /\ stream.final_response.interrupted
        /\ interrupted
        /\ stream.final_response.content = obs.polled_before
        /\ stream.final_response.tool_calls = <<>>

\* ESC after content and tool-call fragments were received.
EscDiscardsToolCallsWitness ==
    /\ pc = "respond" /\ obs.esc
    /\ gen.lines >= 1
    /\ DOMAIN gen.tool_calls_buffer # {}
    /\ stream.final_response.content # <<>>

\* C10: a transient network error ends the model call only after the last
\* of max_retries attempts.
TransientErrorsRetried ==
    (pc = "respond" /\ Transient(stream.final_response.error))
        => stream.attempt = max_retries

-----------------------------------------------------------------------------
(* verification_loop *)

VlEnded == vl.pc \in {"returned", "raised"}

VlFailed(k) == ~vl.iterations[k].success

\* Iteration k failed with the signature of an earlier failed iteration.
VlRepeats(k) ==
    /\ VlFailed(k)
    /\ \E j \in 1..(k - 1) :
          /\ VlFailed(j)
          /\ vl.iterations[j].failure_signature
                 = vl.iterations[k].failure_signature

\* C11: verification_loop ends, and by then model_call_fn was called at most
\* max_iterations times and at most max_iterations iterations were
\* recorded, whatever the model gives, whatever the commands do, with or
\* without an unblocker.
VerificationLoopTerminates ==
    /\ [](vl.pc # "off" =>
            /\ Len(vl.prompts) <= vl.max_iterations
            /\ Len(vl.iterations) <= vl.max_iterations
            /\ vl.runs <= vl.max_iterations)
    /\ <>VlEnded

VerificationLoopTerminatesWitness ==
    /\ vl.pc = "returned"
    /\ vl.max_iterations = MaxVerifyIterations
    /\ Len(vl.prompts) = MaxVerifyIterations
    /\ Len(vl.iterations) = MaxVerifyIterations
    /\ vl.unblocker_invoked

\* C12: without an unblocker the run ends STALLED at the first iteration
\* that fails with the signature of an earlier iteration, and only there;
\* commands that fail the same way every time stall it after exactly two
\* recorded iterations.
StallsOnRepeatedFailure ==
    (vl.pc # "off" /\ ~vl.unblocker) =>
        /\ \A k \in 1..Len(vl.iterations) :
              VlRepeats(k) =>
                  /\ k = Len(vl.iterations)
                  /\ vl.status = "stalled"
                  /\ vl.pc \in {"finish", "returned"}
                  /\ vl.final_result = vl.iterations[k].failure_signature
        /\ vl.status = "stalled" =>
              /\ vl.iterations # <<>>
              /\ VlRepeats(Len(vl.iterations))
        /\ (/\ Len(vl.iterations) >= 2
            /\ VlFailed(1) /\ VlFailed(2)
            /\ vl.iterations[1].failure_signature
                   = vl.iterations[2].failure_signature)
           => Len(vl.iterations) = 2 /\ vl.status = "stalled"

StallsOnRepeatedFailureWitness ==
    /\ vl.pc = "returned"
    /\ ~vl.unblocker
    /\ vl.max_iterations = MaxVerifyIterations
    /\ vl.status = "stalled"
    /\ Len(vl.iterations) = 2
    /\ vl.iterations[2].failure_signature = <<"ERROR:", "build error">>

\* C13: the run is SUCCESS exactly when an iteration's commands all
\* passed; that iteration is the last one recorded, its number is the
\* number of recorded iterations, and the model was called, edits were
\* applied and commands were run that many times and no more.
SuccessEndsTheLoop ==
    vl.pc # "off" =>
        /\ \A k \in 1..Len(vl.iterations) :
              /\ vl.iterations[k].iteration = k
              /\ vl.iterations[k].success =>
                    /\ k = Len(vl.iterations)
                    /\ vl.status = "success"
                    /\ vl.pc \in {"finish", "returned"}
                    /\ Len(vl.prompts) = k
                    /\ vl.applies = k
                    /\ vl.runs = k
        /\ vl.status = "success" =>
              /\ vl.iterations # <<>>
              /\ vl.iterations[Len(vl.iterations)].success

SuccessEndsTheLoopWitness ==
    /\ vl.pc = "returned"
    /\ vl.status = "success"
    /\ Len(vl.iterations) = 2
    /\ vl.max_iterations = MaxVerifyIterations
    /\ vl.commands = MaxCommands

\* C14: a returned run is MAX_ITERATIONS exactly when max_iterations
\* iterations were recorded, none of them passed and the last one was not
\* a stall without an unblocker; with max_iterations = 0 that is the run
\* without any iteration.
MaxIterationsStatus ==
    vl.pc = "returned" =>
        (vl.status = "max_iterations"
            <=> /\ Len(vl.iterations) = vl.max_iterations
                /\ \A k \in 1..Len(vl.iterations) : VlFailed(k)
                /\ ~(~vl.unblocker /\ vl.iterations # <<>>
                       /\ VlRepeats(Len(vl.iterations))))

MaxIterationsStatusWitness ==
    /\ vl.pc = "returned"
    /\ vl.status = "max_iterations"
    /\ vl.max_iterations = MaxVerifyIterations
    /\ Len(vl.iterations) = MaxVerifyIterations
    /\ ~vl.unblocker

\* C15: when the unblocker was invoked at iteration i and iteration i + 1
\* calls the model, the prompt of that call contains the diagnosis the
\* unblocker returned.
DiagnosisInNextPrompt ==
    vl.pc # "off" =>
        \A k \in 1..Len(vl.diagnoses) :
            LET at == vl.diagnoses[k].at IN
            at + 1 <= Len(vl.prompts) =>
                \E p \in 1..Len(vl.prompts[at + 1]) :
                    vl.prompts[at + 1][p] = vl.diagnoses[k].text

-----------------------------------------------------------------------------
(* Tool calls in the history *)

\* C16: among the messages of the current request (those after its user
\* message) no two tool-call references of assistant messages carry the
\* same id, and no two tool-result messages carry the same tool_call_id,
\* ids synthesized as call_<index> included.
UniqueToolCallIds ==
    LET msgs == context.messages
        start == CHOOSE i \in 0..Len(msgs) :
                    /\ i = 0 \/ msgs[i].role = "user"
                    /\ \A j \in (i + 1)..Len(msgs) : msgs[j].role # "user"
        refs == {r \in ((start + 1)..Len(msgs)) \X (1..MaxEmitted) :
                    /\ msgs[r[1]].role = "assistant"
                    /\ r[2] <= Len(msgs[r[1]].tool_calls)}
        results == {k \in (start + 1)..Len(msgs) : msgs[k].role = "tool"}
    IN /\ \A r1, r2 \in refs :
            r1 # r2 => msgs[r1[1]].tool_calls[r1[2]].id
                          # msgs[r2[1]].tool_calls[r2[2]].id
       /\ \A k1, k2 \in results :
            k1 # k2 => msgs[k1].tool_call_id # msgs[k2].tool_call_id

\* C17: every tool call of a response is finalized from its buffer entry:
\* it keeps the entry's name and id, and its arguments are {} when the
\* accumulated text is empty or does not decode, the decoded document
\* otherwise; a malformed entry changes nothing for the other entries and
\* the response carries no error.
MalformedArgumentsDefault ==
    (pc = "respond" /\ has_tool_calls(stream.final_response)) =>
        LET buffer == gen.tool_calls_buffer
            keys == SortedKeys(DOMAIN buffer)
            tool_calls == stream.final_response.tool_calls
        IN /\ Len(tool_calls) = Len(keys)
           /\ stream.final_response.error = NoError
           /\ \A p \in 1..Len(keys) :
                LET tc_data == buffer[keys[p]] IN
                /\ tool_calls[p].name = tc_data.name
                /\ tool_calls[p].id = IF tc_data.id # "" THEN tc_data.id
                                      ELSE SynthId(keys[p])
                /\ tool_calls[p].arguments =
                      IF \/ tc_data.arguments = <<>>
                         \/ ~json_loads(tc_data.arguments).ok
                          THEN EmptyDict
                          ELSE json_loads(tc_data.arguments).value

\* A response of two calls: the first one's arguments stop in the middle
\* of the document, the second one's are complete.
MalformedArgumentsDefaultWitness ==
    /\ pc = "respond"
    /\ Len(stream.final_response.tool_calls) = 2
    /\ gen.tool_calls_buffer[0].arguments = <<"{", "path:">>
    /\ gen.tool_calls_buffer[0].name = fs_read
    /\ stream.final_response.tool_calls[1].arguments = EmptyDict
    /\ stream.final_response.tool_calls[1].id = "call_0"
    /\ stream.final_response.tool_calls[2].arguments.path = "a.py"
    /\ stream.final_response.error = NoError

\* C18: the calls of a response are taken up in the order of their stream
\* indices, one after the other; when a call is taken up the results of
\* all calls before it, and of no other, follow the assistant message in
\* the history, in call order; and between two results a tool call's own
\* execute is invoked at most once.
ToolCallsInOrder ==
    /\ pc = "tools" =>
          LET msgs == context.messages
              a == CHOOSE i \in 1..Len(msgs) :
                      /\ msgs[i].role = "assistant"
                      /\ \A j \in (i + 1)..Len(msgs) :
                            msgs[j].role # "assistant"
          IN /\ Len(msgs) - a = batch.pos - 1
             /\ Len(msgs[a].tool_calls) = Len(batch.calls)
             /\ \A k \in 1..Len(batch.calls) :
                   /\ batch.calls[k].id = SynthId(k - 1)
                   /\ msgs[a].tool_calls[k].id = batch.calls[k].id
             /\ \A k \in 1..(batch.pos - 1) :
                   /\ msgs[a + k].role = "tool"
                   /\ msgs[a + k].tool_call_id = batch.calls[k].id
    /\ \A j \in 1..Len(trace) :
          trace[j].kind = "result" =>
              Cardinality({i \in 1..Len(trace) :
                              /\ InGroup(i, j)
                              /\ trace[i].kind = "exec"
                              /\ trace[i].call = trace[j].call}) <= 1
    /\ \A i \in 2..(Len(trace) - 1) :
          IF trace[i].kind = "result"
              THEN trace[i + 1].pos \in {trace[i].pos + 1, 1}
              ELSE trace[i + 1].pos = trace[i].pos

\* The second call of a response is about to be taken up after the first
\* one, the call of the lower index, failed.
ToolCallsInOrderWitness ==
    /\ pc = "tools"
    /\ batch.pos = 2
    /\ batch.calls[1].name = shell_exec
    /\ batch.calls[2].name = fs_read
    /\ trace[Len(trace)].kind = "result"
    /\ trace[Len(trace)].outcome = "failed"
    /\ trace[Len(trace)].call = "call_0"
    /\ context.messages[Len(context.messages)].tool_call_id = "call_0"

\* C19: the step that takes up a call naming a tool absent from the
\* registry invokes no tool's execute and changes no file, appends exactly
\* one tool message with the call's id, without success and with an error,
\* and leaves the request running: the next call of the batch is next, or
\* after the last call the next model iteration.
UnknownToolReported ==
    [][(/\ pc = "tools"
        /\ ~over_limit(count_tool_call(context), config)
        /\ registry_get(batch.calls[batch.pos].name) = None) =>
        LET tool_call == batch.calls[batch.pos]
            n == Len(context.messages)
        IN /\ Len(context'.messages) = n + 1
           /\ SubSeq(context'.messages, 1, n) = context.messages
           /\ context'.messages[n + 1].role = "tool"
           /\ context'.messages[n + 1].tool_call_id = tool_call.id
           /\ ~context'.messages[n + 1].result.success
           /\ context'.messages[n + 1].result.error # None
           /\ Executions(trace') = Executions(trace)
           /\ disk' = disk
           /\ context'.read_set = context.read_set
           /\ IF batch.pos < Len(batch.calls)
                 THEN pc' = "tools" /\ batch' = [batch EXCEPT !.pos = @ + 1]
                 ELSE pc' = "turn"]_vars

\* The model has answered again after the batch with the unknown tool.
UnknownToolReportedWitness ==
    /\ pc = "respond"
    /\ context.iteration = 2
    /\ stream.final_response.error = NoError
    /\ \E j \in 1..Len(trace) :
          /\ trace[j].kind = "result"
          /\ trace[j].name = <<"fs.", "delete">>
          /\ trace[j].call = "call_0"
    /\ \E k \in 1..Len(context.messages) :
          /\ context.messages[k].role = "tool"
          /\ context.messages[k].tool_call_id = "call_0"
          /\ context.messages[k].result.error # None

\* C20: the step in which a tool's execute raises ends like any failed
\* call: exactly one tool message with the call's id is appended, without
\* success and with the exception's text as error, the call's result is
\* recorded, and the loop goes on with the next call of the batch or, after
\* the last one, with the next model iteration.
ExceptionBecomesResult ==
    [][(/\ pc = "tools"
        /\ \E i \in (Len(trace) + 1)..Len(trace') :
              trace'[i].kind = "exec" /\ trace'[i].outcome = "raised") =>
        LET tool_call == batch.calls[batch.pos]
            n == Len(context.messages)
        IN /\ Len(context'.messages) = n + 1
           /\ SubSeq(context'.messages, 1, n) = context.messages
           /\ context'.messages[n + 1].role = "tool"
           /\ context'.messages[n + 1].tool_call_id = tool_call.id
           /\ ~context'.messages[n + 1].result.success
           /\ context'.messages[n + 1].result.error = "exception"
           /\ ~context'.messages[n + 1].result.skipped
           /\ trace'[Len(trace')].kind = "result"
           /\ trace'[Len(trace')].outcome = "failed"
           /\ trace'[Len(trace')].call = tool_call.id
           /\ state' # "error"
           /\ IF batch.pos < Len(batch.calls)
                 THEN pc' = "tools" /\ batch' = [batch EXCEPT !.pos = @ + 1]
                 ELSE pc' = "turn"]_vars

\* The first call of a batch raised; the second one has run since.
ExceptionBecomesResultWitness ==
    \E i, j \in 1..Len(trace) :
        /\ i < j
        /\ trace[i].kind = "exec" /\ trace[i].outcome = "raised"
        /\ trace[i].pos = 1
        /\ trace[j].kind = "exec" /\ trace[j].outcome = "ok"
        /\ trace[j].pos = 2
        /\ \A k \in i..j : trace[k].kind # "begin"
        /\ context.messages[Len(context.messages) - 1].result.error
               = "exception"

-----------------------------------------------------------------------------
(* The request loop: limits, continuation, states *)

\* C21: a model call of a request is its iteration number, which is at
\* most max_iterations, so a request makes at most max_iterations model
\* calls; a request whose iteration or tool-call ceiling is exceeded
\* prints a warning, makes no model call after it and goes to its end.
TurnLimitsEnforced ==
    /\ [](/\ pc \in {"stream", "respond", "tools"} =>
               /\ context.iteration \in 1..config.max_iterations
               /\ console = <<>> \/ pc = "tools"
          /\ (\/ context.iteration > config.max_iterations
              \/ context.tool_call_count > config.max_tool_calls_per_turn)
                 => console # <<>>)
    /\ [][/\ (pc' = "stream" /\ pc # "stream") =>
               /\ pc = "turn"
               /\ context'.iteration = context.iteration + 1
               /\ console = <<>>
          /\ (pc = "turn" /\ console # <<>>) =>
               /\ pc' = "summarizing"
               /\ Len(console') = Len(console) + 1
          /\ (pc = "turn" /\ context.iteration >= config.max_iterations) =>
               /\ pc' = "summarizing"
               /\ console' = Append(console, "Max iterations reached")
          /\ (pc = "tools" /\ console' # console) =>
               /\ context'.tool_call_count > config.max_tool_calls_per_turn
               /\ trace' = trace
               /\ pc' = "turn"]_vars

\* A request whose batch ran into the tool-call ceiling has ended, with
\* both warnings printed and a call of the batch left without a result.
TurnLimitsEnforcedWitness ==
    /\ pc = "summarizing"
    /\ console = <<"Tool call limit reached", "Max tool calls reached">>
    /\ context.tool_call_count = config.max_tool_calls_per_turn + 1
    /\ context.iteration = 2

-----------------------------------------------------------------------------
(* Intent routing *)

\* C23: a text with a word that holds a hard-mode token, in whatever case,
\* is classified with hard_mode_triggered set, at least one matched token
\* and an intent other than CHAT.
HardModeNeverChat ==
    (fn.op = "classify_intent" /\ fn.done
     /\ \E i \in 1..Len(fn.input) :
           fn.input[i] \in {"Swift", "error", "fix", "review"}) =>
        /\ fn.output.hard_mode_triggered
        /\ fn.output.matched_tokens # {}
        /\ fn.output.intent # "CHAT"

\* A text whose only signal is a capitalized hard-mode token.
HardModeNeverChatWitness ==
    /\ fn.op = "classify_intent" /\ fn.done
    /\ fn.input = <<"hello", "  ", "Swift">>
    /\ fn.output.intent = "CODE_REVIEW_EXHAUSTIVE"
    /\ fn.output.matched_tokens = {"swift"}
    /\ fn.output.confidence = 80

\* C24: the intent of a text is DIAGNOSE when it holds a diagnose
\* trigger; otherwise CODE_WRITE when it holds a code-write trigger;
\* otherwise a review intent when it holds a review trigger; otherwise
\* CODE_REVIEW_EXHAUSTIVE when it holds a hard-mode token; otherwise CHAT
\* or RESEARCH.
IntentPriority ==
    (fn.op = "classify_intent" /\ fn.done) =>
        LET has(words) == \E i \in 1..Len(fn.input) : fn.input[i] \in words
            diagnose == \/ has({"broken", "error"})
                        \/ \E i \in 1..(Len(normalize(fn.input)) - 1) :
                              /\ normalize(fn.input)[i] = "not"
                              /\ normalize(fn.input)[i + 1] = "working"
            write == has({"write", "fix"})
            review == has({"audit", "review"})
            hard == has({"Swift", "error", "fix", "review"})
        IN IF diagnose THEN fn.output.intent = "DIAGNOSE"
           ELSE IF write THEN fn.output.intent = "CODE_WRITE"
           ELSE IF review
               THEN fn.output.intent \in {"CODE_REVIEW_QUICK",
                                          "CODE_REVIEW_EXHAUSTIVE"}
           ELSE IF hard THEN fn.output.intent = "CODE_REVIEW_EXHAUSTIVE"
           ELSE fn.output.intent \in {"CHAT", "RESEARCH"}

\* C25: in every IntentDecision requires_repo says that the intent is not
\* CHAT and requires_execution_loop that it is CODE_WRITE or DIAGNOSE,
\* whatever the constructor was given.
DerivedRequirements ==
    (fn.op \in {"classify_intent", "IntentDecision"} /\ fn.done) =>
        /\ fn.output.requires_repo = (fn.output.intent # "CHAT")
        /\ fn.output.requires_execution_loop
               = (fn.output.intent \in {"CODE_WRITE", "DIAGNOSE"})

\* A CHAT decision constructed with both requirements set.
DerivedRequirementsWitness ==
    /\ fn.op = "IntentDecision" /\ fn.done
    /\ fn.input.intent = "CHAT"
    /\ fn.input.requires_repo /\ fn.input.requires_execution_loop
    /\ ~fn.output.requires_repo /\ ~fn.output.requires_execution_loop
    /\ fn.output.matched_tokens = {"swift"}

-----------------------------------------------------------------------------
(* The request loop: continuation and states *)

\* C26: a request makes another model call only after a response with at
\* least one tool call, no interruption and no error; after any other
\* response the turn ends, and process() summarizes and returns.
ContinuesOnlyAfterToolCalls ==
    [][LET fin == stream.final_response
           ends == \/ fin.interrupted
                   \/ fin.error # NoError
                   \/ fin.tool_calls = <<>>
           msgs == context.messages
           last(role) == CHOOSE i \in 0..Len(msgs) :
                            /\ i > 0 => msgs[i].role = role
                            /\ \A j \in (i + 1)..Len(msgs) :
                                  msgs[j].role # role
       IN /\ pc = "respond" =>
                /\ ends => pc' = "summarizing" /\ trace' = trace
                /\ ~ends => /\ pc' = "tools"
                            /\ batch'.calls = fin.tool_calls
                            /\ context'.messages[Len(context'.messages)]
                                   .tool_calls = ToolCallRefs(fin.tool_calls)
          /\ (pc' = "stream" /\ pc = "turn" /\ context.iteration >= 1) =>
                /\ ~interrupted
                /\ last("assistant") > last("user")
                /\ msgs[last("assistant")].tool_calls # <<>>
                /\ \A j \in (last("assistant") + 1)..Len(msgs) :
                      msgs[j].role = "tool"
          /\ pc = "summarizing" => pc' = "idle"
          /\ pc' = "turn" => pc \in {"idle", "tools"}]_vars

\* The second model call of a request begins, after a tool was executed.
ContinuesOnlyAfterToolCallsWitness ==
    /\ pc = "stream" /\ context.iteration = 2
    /\ \E i \in 1..Len(trace) : trace[i].kind = "exec"
    /\ context.messages[Len(context.messages)].role = "tool"

\* C27: every process() ends with the state going to SUMMARIZING and then
\* IDLE; the state is THINKING during every model call; a tool is executed
\* only in state EXECUTING_TOOLS or, after an approval prompt, in
\* AWAITING_APPROVAL; the state is IDLE whenever no request is in progress.
AgentStates ==
    /\ [](/\ pc = "idle" => state = "idle"
          /\ pc \in {"stream", "respond"} => state = "thinking"
          /\ pc = "summarizing" => state = "summarizing")
    /\ [][/\ (pc # "idle" /\ pc' = "idle") =>
                state = "summarizing" /\ state' = "idle"
          /\ Executions(trace') > Executions(trace) =>
                /\ state' \in {"executing_tools", "awaiting_approval"}
                /\ state' = "awaiting_approval" =>
                      \E i \in 1..Len(trace') : trace'[i].kind = "prompt"]_vars

\* C28: a model call opens the stream at most max_retries = 3 times; an
\* exception whose message holds none of the keywords connection, timeout,
\* refused, network is not retried: it ends the model call on the attempt
\* it interrupts, with the error set, and the turn then ends with no
\* assistant message appended and no tool executed.
FatalErrorsNotRetried ==
    /\ [](/\ stream.attempt \in 1..max_retries
          /\ (pc = "stream" /\ gen.phase = "open") =>
                \A error_msg \in RaisedMessages :
                    (\A i \in 1..Len(error_msg) : error_msg[i] \notin Keywords)
                        => LET st == on_exception(stream, error_msg) IN
                           /\ st.final_response.done
                           /\ st.final_response.error = error_msg
                           /\ st.final_response.tool_calls = <<>>
                           /\ st.attempt = stream.attempt)
    /\ [][/\ (pc = "stream" /\ gen'.phase = "new" /\ gen.phase # "new") =>
                /\ stream'.attempt = stream.attempt + 1
                /\ pc' = "stream"
          /\ (pc = "stream" /\ pc' = "respond" /\ obs'.cause = "raised") =>
                /\ stream'.attempt = stream.attempt
                /\ stream'.final_response.error # NoError
                /\ \/ stream.attempt = max_retries
                   \/ ~is_connection_error(stream'.final_response.error)
          /\ (pc = "respond" /\ stream.final_response.error # NoError) =>
                /\ pc' = "summarizing"
                /\ context' = context /\ trace' = trace /\ disk' = disk
          /\ pc = "summarizing" =>
                context' = context /\ trace' = trace /\ disk' = disk]_vars

-----------------------------------------------------------------------------
(* The undo stack *)

-----------------------------------------------------------------------------
(* run_commands *)

\* C30: run_commands runs the commands in list order and none after the
\* first that exits non-zero, times out or raises; success says that every
\* command exited with code 0; on a failure exit_code and
\* failure_signature are those of the first failing command (a command
\* that did not exit has no code, and exit_code keeps its initial -1).
StopsAtFirstFailure ==
    (fn.op = "run_commands" /\ fn.done) =>
        LET outcomes == fn.input
            failing == {i \in 1..Len(outcomes) : outcomes[i].kind # "exit0"}
            first == CHOOSE i \in failing : \A j \in failing : i <= j
            result == fn.output
        IN /\ result.success = (failing = {})
           /\ result.subprocess_runs
                = IF failing = {} THEN Len(outcomes) ELSE first
           /\ failing # {} =>
                /\ result.failure_signature
                     = CASE outcomes[first].kind = "timeout" -> <<"TIMEOUT">>
                         [] outcomes[first].kind = "exception" ->
                                <<"EXCEPTION:", "OSError">>
                         [] OTHER -> derive_failure_signature(
                                         outcomes[first].output)
                /\ result.exit_code
                     = IF outcomes[first].kind = "nonzero"
                           THEN outcomes[first].returncode ELSE -1

-----------------------------------------------------------------------------
(* apply_edits *)

EveryIterationFullyRecorded ==
    /\ Len(vl.iterations) = Len(vl.ran)
    /\ \A k \in 1..Len(vl.iterations) :
          /\ vl.iterations[k].iteration = k
          /\ vl.iterations[k].edits_applied = vl.took[k]
          /\ vl.iterations[k].commands_run = vl.ran[k].subprocess_runs
          /\ vl.iterations[k].success = vl.ran[k].success
          /\ vl.iterations[k].failure_signature = vl.ran[k].failure_signature

(***************************************************************************)
(* _derive_failure_signature                                               *)
(***************************************************************************)

Derived == fn.op = "_derive_failure_signature" /\ fn.done

SomeLine(output, test(_)) == \E k \in 1..Len(output) : test(output[k])

\* C34: the classes of lines have the priority FAILED > error > exception
\* > traceback over the whole output: the signature is a FAILED: one if
\* some line starts with FAILED, otherwise an ERROR: one if some line
\* contains "error", otherwise an EXCEPTION: one, otherwise TRACEBACK; it
\* is the hash of the last lines only when no line is of any class, and
\* EMPTY_OUTPUT only for the empty output.
SignaturePriority ==
    Derived =>
        LET output == fn.input
            sig == fn.output
            failed == SomeLine(output, startswith_FAILED)
            error == SomeLine(output, contains_error)
            exception == SomeLine(output, contains_exception)
            traceback == SomeLine(output, contains_traceback)
        IN /\ sig # NoSignature
           /\ sig = <<"EMPTY_OUTPUT">> <=> output = <<>>
           /\ sig[1] = "HASH:" <=>
                 output # <<>> /\ ~(failed \/ error \/ exception \/ traceback)
           /\ failed => sig[1] = "FAILED:"
           /\ ~failed /\ error => sig[1] = "ERROR:"
           /\ ~failed /\ ~error /\ exception => sig[1] = "EXCEPTION:"
           /\ ~failed /\ ~error /\ ~exception /\ traceback
                 => sig = <<"TRACEBACK">>

(***************************************************************************)
(* The replacement of a file                                               *)
(***************************************************************************)

\* C33: while apply_edits performs a create or modify edit, a reader of
\* the destination path gets the file as it was before the edit (its old
\* content, or no file) or the whole new content, never a part of it.
OldOrCompleteNew ==
    Editing =>
        /\ at_path(fn) \in {fn.old, File(fn.edit.content)}
        /\ \A k \in 1..Len(fn.reads) :
              fn.reads[k].seen \in {fn.old, File(fn.edit.content)}
        /\ fn.reader.pc = "open" =>
              \E whole \in {fn.old, File(fn.edit.content)} :
                 /\ whole.exists
                 /\ Len(fn.reader.got) <= Len(whole.content)
                 /\ fn.reader.got =
                       SubSeq(whole.content, 1, Len(fn.reader.got))

\* A reader that opened the old file while the new content was being
\* written and read it to its end after the replacement, and a second that
\* read the new content.
OldOrCompleteNewWitness ==
    /\ Editing /\ fn.pc = "replaced"
    /\ Len(fn.edit.content) = 2
    /\ fn.reads = <<[seen |-> File(<<"o1", "o2">>), opened_at |-> "open",
                     closed_at |-> "replaced"],
                    [seen |-> File(fn.edit.content), opened_at |-> "replaced",
                     closed_at |-> "replaced"]>>

(***************************************************************************)
(* Tool calls and their results                                            *)
(***************************************************************************)

\* The last message of the history that has the role, 0 if there is none.
LastOf(msgs, role) ==
    CHOOSE i \in 0..Len(msgs) :
        /\ i = 0 \/ msgs[i].role = role
        /\ \A j \in (i + 1)..Len(msgs) : msgs[j].role # role

\* The tool-result messages among msgs[from..] that carry the id.
ResultsFor(msgs, from, id) ==
    {k \in from..Len(msgs) :
        msgs[k].role = "tool" /\ msgs[k].tool_call_id = id}

\* C35: when a model call of a request follows an assistant message of
\* that request, every tool call the message refers to has exactly one
\* tool-result message with its id in the history.
OneResultPerToolCall ==
    pc = "stream" =>
        LET msgs == context.messages
            said == LastOf(msgs, "assistant")
        IN said > LastOf(msgs, "user") =>
              \A c \in 1..Len(msgs[said].tool_calls) :
                 Cardinality(ResultsFor(msgs, 1, msgs[said].tool_calls[c].id))
                     = 1

(***************************************************************************)
(* What verification_loop returns                                          *)
(***************************************************************************)

RECURSIVE EditsApplied(_)
EditsApplied(iterations) ==
    IF iterations = <<>> THEN 0
    ELSE iterations[1].edits_applied + EditsApplied(Tail(iterations))

\* C36: when verification_loop returns, its status fits the recorded
\* iterations: it is success exactly when the last iteration succeeded and
\* all before it failed; it is stalled only without an unblocker, with two
\* iterations or more and the last failure signature that of an earlier
\* iteration; it is failure only when model_call_fn raised; and
\* edits_total is the sum of edits_applied over the iterations.
StatusFitsIterations ==
    vl.pc = "returned" =>
        LET n == Len(vl.iterations) IN
        /\ vl.status = "success"
              <=> /\ n >= 1
                  /\ vl.iterations[n].success
                  /\ \A k \in 1..(n - 1) : VlFailed(k)
        /\ vl.status = "stalled"
              => /\ ~vl.unblocker
                 /\ n >= 2
                 /\ VlRepeats(n)
        /\ vl.status = "failure" => vl.raised_at # 0
        /\ vl.edits_total = EditsApplied(vl.iterations)

\* A return after two iterations that applied edits, the second a
\* success.
StatusFitsIterationsWitness ==
    /\ vl.pc = "returned"
    /\ vl.status = "success"
    /\ Len(vl.iterations) = 2
    /\ vl.iterations[1].edits_applied = 1
    /\ vl.iterations[2].edits_applied = 2
    /\ vl.edits_total = 3

\* C37: when model_call_fn raises in iteration i, verification_loop
\* returns with the status failure and the records of the i - 1 iterations
\* before, and neither an edit is applied nor a command run in iteration i
\* or after it.
ModelFailureEndsTheLoop ==
    (vl.pc # "off" /\ vl.raised_at # 0) =>
        /\ vl.pc \in {"finish", "returned"}
        /\ vl.status = "failure"
        /\ Len(vl.iterations) = vl.raised_at - 1
        /\ Len(vl.prompts) = vl.raised_at
        /\ vl.applies = vl.raised_at - 1
        /\ Len(vl.took) = vl.raised_at - 1
        /\ vl.runs = vl.raised_at - 1
        /\ Len(vl.ran) = vl.raised_at - 1

\* model_call_fn raised in the second iteration, after a first that
\* applied an edit and failed, and verification_loop returned.
ModelFailureEndsTheLoopWitness ==
    /\ vl.pc = "returned"
    /\ vl.raised_at = 2
    /\ vl.max_iterations = MaxVerifyIterations
    /\ vl.took = <<1>>
    /\ Len(vl.ran) = 1

\* C40: with an empty list of commands run_commands reports success
\* without having run anything, so a verification_loop that is allowed an
\* iteration and whose model gives edits returns success with exactly one
\* iteration, whatever the edits.
NoCommandsSucceedAtOnce ==
    (vl.pc # "off" /\ vl.commands = 0) =>
        /\ \A k \in 1..Len(vl.ran) :
              vl.ran[k].success /\ vl.ran[k].subprocess_runs = 0
        /\ (vl.pc = "returned" /\ vl.max_iterations >= 1 /\ vl.raised_at = 0)
              => /\ vl.status = "success"
                 /\ Len(vl.iterations) = 1
                 /\ vl.iterations[1].success
                 /\ Len(vl.prompts) = 1
                 /\ vl.runs = 1

\* A return with success and no command, after edits of which one took
\* effect and one did not.
NoCommandsSucceedAtOnceWitness ==
    /\ vl.pc = "returned"
    /\ vl.commands = 0
    /\ vl.status = "success"
    /\ vl.took = <<1>>
    /\ Len(vl.modified) = 1
    /\ vl.ran[1].subprocess_runs = 0
    /\ disk["/w/b.py"] = NoFile

(***************************************************************************)
(* A response that is interrupted or has an error                          *)
(***************************************************************************)

\* The model call is under way, or it gave a response that is interrupted
\* or has an error and _process_turn is about to look at it.
CallOrStoppedResponse ==
    \/ pc = "stream"
    \/ /\ pc = "respond"
       /\ \/ stream.final_response.interrupted
          \/ stream.final_response.error # NoError

\* C38: a response that is interrupted or has an error changes nothing in
\* the context: from the model call to the return of _process_turn no
\* message is appended, no tool is executed and no file touched, and the
\* read-set, the undo stack and the tool-call counter stay as they were.
StoppedResponseChangesNothing ==
    [][CallOrStoppedResponse =>
          /\ context' = context
          /\ trace' = trace
          /\ disk' = disk
          /\ batch' = batch
          /\ pc' \in {"stream", "respond", "summarizing"}]_vars

\* The second model call of a request, after a file was read, was
\* interrupted: the request is ending, and the last message is the result
\* of the read.
StoppedResponseChangesNothingWitness ==
    /\ pc = "summarizing"
    /\ interrupted
    /\ context.tool_call_count = 1
    /\ context.iteration = 2
    /\ context.read_set # {}
    /\ context.messages[Len(context.messages)].role = "tool"

(***************************************************************************)
(* The automatic read                                                      *)
(***************************************************************************)

\* Event i of the next state's history is new, and is the execution of an
\* automatic read.
AutoReadAt(i) ==
    /\ i > Len(trace)
    /\ trace'[i].kind = "exec"
    /\ trace'[i].call = "auto_read"

\* C39: the automatic read before an fs.write or fs.edit executes the
\* fs.read tool and, when it succeeds, puts the path into the read-set; it
\* appends no message and does not count as a tool call: the step of the
\* modifying call appends the one tool-result message of that call and
\* counts one call.
AutoReadIsSilent ==
    [][\A i \in 1..Len(trace') :
          (Len(trace') > Len(trace) /\ AutoReadAt(i)) =>
              LET msgs == context'.messages
                  tool_call == batch.calls[batch.pos]
              IN /\ trace'[i].name = fs_read
                 /\ tool_call.name \in Modifiers
                 /\ trace'[i].path = resolve(tool_call.arguments.path)
                 /\ IF trace'[i].outcome = "ok"
                        THEN context'.read_set
                                 = context.read_set \cup {trace'[i].path}
                        ELSE context'.read_set = context.read_set
                 /\ Len(msgs) = Len(context.messages) + 1
                 /\ SubSeq(msgs, 1, Len(context.messages)) = context.messages
                 /\ msgs[Len(msgs)].role = "tool"
                 /\ msgs[Len(msgs)].tool_call_id = tool_call.id
                 /\ tool_call.id # "auto_read"
                 /\ context'.tool_call_count = context.tool_call_count + 1
      ]_vars

\* A request whose one tool call, approved, wrote an existing file that had
\* not been read: the automatic read and the write ran, the path is in the
\* read-set, one call is counted and the history has the one result.
AutoReadIsSilentWitness ==
    /\ Len(trace) = 5
    /\ trace[2].kind = "prompt" /\ trace[2].answer = "yes"
    /\ trace[3].kind = "exec" /\ trace[3].call = "auto_read"
    /\ trace[3].outcome = "ok"
    /\ trace[4].kind = "exec" /\ trace[4].name = fs_write
    /\ trace[4].outcome = "ok"
    /\ trace[5].kind = "result"
    /\ context.read_set = {"/w/a.py"}
    /\ context.tool_call_count = 1
    /\ Len(context.messages) = 4
    /\ context.messages[4].role = "tool"
====
